---------------------------- MODULE Spec2Model ----------------------------
(***************************************************************************)
(* CHIP-8 interpreter core of chip8-emulator-rs: machine state             *)
(* (chip8_emulator/state.rs), quirks profiles (quirks.rs), the interpreter *)
(* (cpu.rs) and the host calls that drive it (app.rs).                     *)
(*                                                                         *)
(* The interpreter functions are operators over a state record with the    *)
(* fields of EmulatorState; they return [state, result] where result is    *)
(* "Ok", the name of the Chip8Error variant returned, or "panic" when the  *)
(* Rust code aborts on an out-of-bounds slice index.                       *)
(***************************************************************************)
EXTENDS Integers, Sequences, FiniteSets, TLC

\* ------------------------------------------------------------------ config
MEMORY_SIZE == 4096
SCREEN_WIDTH == 64
SCREEN_HEIGHT == 32
REGISTER_COUNT == 16
KEY_COUNT == 16
PROGRAM_START == 512

\* ------------------------------------------------------------------ bounds
\* execute_cycle calls made by the host in one run
MaxCycles == 6
\* consecutive tick_timers calls between two cycles
MaxTicks == 3

\* DXYN calls in a row in the drawing harness
MaxDraws == 2

\* reset_state calls the host makes on a machine it has created
MaxResets == 1

\* the largest max_cycles run_emulator_headless is called with
MaxHeadlessCycles == 4

\* lines of the sources built from LinePool
MaxLines == 3

Byte == 0..255

FONT_BYTES ==
    << \HF0, \H90, \H90, \H90, \HF0,   \H20, \H60, \H20, \H20, \H70,
       \HF0, \H10, \HF0, \H80, \HF0,   \HF0, \H10, \HF0, \H10, \HF0,
       \H90, \H90, \HF0, \H10, \H10,   \HF0, \H80, \HF0, \H10, \HF0,
       \HF0, \H80, \HF0, \H90, \HF0,   \HF0, \H10, \H20, \H40, \H40,
       \HF0, \H90, \HF0, \H90, \HF0,   \HF0, \H90, \HF0, \H10, \HF0,
       \HF0, \H90, \HF0, \H90, \H90,   \HE0, \H90, \HE0, \H90, \HE0,
       \HF0, \H80, \H80, \H80, \HF0,   \HE0, \H90, \H90, \H90, \HE0,
       \HF0, \H80, \HF0, \H80, \HF0,   \HF0, \H80, \HF0, \H80, \H80 >>

\* ------------------------------------------------------------------ quirks
ORIGINAL_QUIRKS ==
    [shift_uses_vy |-> TRUE, load_store_increment_i |-> TRUE,
     jump_with_vx |-> FALSE, draw_wrap |-> FALSE]

MODERN_QUIRKS ==
    [shift_uses_vy |-> FALSE, load_store_increment_i |-> FALSE,
     jump_with_vx |-> TRUE, draw_wrap |-> TRUE]

\* ------------------------------------------------------- integer bit helpers
RECURSIVE BitAnd(_, _)
BitAnd(a, b) ==
    IF a = 0 \/ b = 0 THEN 0
    ELSE (a % 2) * (b % 2) + 2 * BitAnd(a \div 2, b \div 2)

RECURSIVE BitOr(_, _)
BitOr(a, b) ==
    IF a = 0 THEN b ELSE IF b = 0 THEN a
    ELSE (IF a % 2 = 1 \/ b % 2 = 1 THEN 1 ELSE 0) + 2 * BitOr(a \div 2, b \div 2)

RECURSIVE BitXor(_, _)
BitXor(a, b) ==
    IF a = 0 THEN b ELSE IF b = 0 THEN a
    ELSE ((a + b) % 2) + 2 * BitXor(a \div 2, b \div 2)

\* u8::from(bool)
u8_from(b) == IF b THEN 1 ELSE 0

\* ------------------------------------------------------------ opcode fields
x_register_index(opcode) == (opcode \div 256) % 16

y_register_index(opcode) == (opcode \div 16) % 16

address_nnn(opcode) == opcode % 4096

byte_nn(opcode) == opcode % 256

nibble_n(opcode) == opcode % 16

\* --------------------------------------------------------------- results
Ok(state) == [state |-> state, result |-> "Ok"]

Err(state, error) == [state |-> state, result |-> error]

\* ------------------------------------------------------------- state.rs
EmulatorState_default ==
    [memory |-> [a \in 0..(MEMORY_SIZE - 1) |-> 0],
     registers |-> [r \in 0..(REGISTER_COUNT - 1) |-> 0],
     stack |-> << >>,
     key_inputs |-> [k \in 0..(KEY_COUNT - 1) |-> 0],
     screen_buffer |-> [i \in 0..(SCREEN_WIDTH * SCREEN_HEIGHT - 1) |-> 0],
     pc |-> PROGRAM_START,
     index |-> 0,
     delay_timer |-> 0,
     sound_timer |-> 0,
     should_draw |-> TRUE,
     exited |-> FALSE,
     op |-> 0]

clear_display(state) ==
    [state EXCEPT !.screen_buffer = [i \in 0..(SCREEN_WIDTH * SCREEN_HEIGHT - 1) |-> 0],
                  !.should_draw = TRUE]

\* memory[..FONT_BYTES.len()].copy_from_slice(&FONT_BYTES)
load_font(state) ==
    [state EXCEPT !.memory =
        [a \in 0..(Len(FONT_BYTES) - 1) |-> FONT_BYTES[a + 1]] @@ @]

\* rom_bytes is the byte sequence read from the ROM file
load_rom(state, rom_bytes) ==
    IF Len(rom_bytes) > MEMORY_SIZE - PROGRAM_START
    THEN Err(state, "RomTooLarge")
    ELSE Ok([state EXCEPT !.memory =
                 [a \in PROGRAM_START..(PROGRAM_START + Len(rom_bytes) - 1) |->
                     rom_bytes[a - PROGRAM_START + 1]] @@ @])

\* mutant: the reset leaves memory as it finds it and loads font and ROM over it
reset_state_keeps_memory(state, has_rom, rom_bytes) ==
    LET zeroed == [clear_display(state) EXCEPT
                       !.registers = [r \in 0..(REGISTER_COUNT - 1) |-> 0],
                       !.stack = << >>,
                       !.key_inputs = [k \in 0..(KEY_COUNT - 1) |-> 0],
                       !.pc = PROGRAM_START,
                       !.index = 0,
                       !.delay_timer = 0,
                       !.sound_timer = 0,
                       !.exited = FALSE,
                       !.op = 0]
        fonted == load_font(zeroed)
    IN  IF has_rom THEN load_rom(fonted, rom_bytes) ELSE Ok(fonted)

\* has_rom is FALSE for create_state(None)
reset_state(state, has_rom, rom_bytes) ==
    LET zeroed == [clear_display(state) EXCEPT
                       !.memory = [a \in 0..(MEMORY_SIZE - 1) |-> 0],
                       !.registers = [r \in 0..(REGISTER_COUNT - 1) |-> 0],
                       !.stack = << >>,
                       !.key_inputs = [k \in 0..(KEY_COUNT - 1) |-> 0],
                       !.pc = PROGRAM_START,
                       !.index = 0,
                       !.delay_timer = 0,
                       !.sound_timer = 0,
                       !.exited = FALSE,
                       !.op = 0]
        fonted == load_font(zeroed)
    IN  IF has_rom THEN load_rom(fonted, rom_bytes) ELSE Ok(fonted)

create_state(has_rom, rom_bytes) == reset_state(EmulatorState_default, has_rom, rom_bytes)

\* mutant: the search starts from the highest key
last_pressed_key(state) ==
    LET pressed == {k \in 0..(KEY_COUNT - 1) : state.key_inputs[k] = 1}
    IN  IF pressed = {} THEN -1
        ELSE CHOOSE k \in pressed : \A j \in pressed : k >= j

first_pressed_key(state) ==
    LET pressed == {k \in 0..(KEY_COUNT - 1) : state.key_inputs[k] = 1}
    IN  IF pressed = {} THEN -1
        ELSE CHOOSE k \in pressed : \A j \in pressed : k <= j

set_key_state(state, key_index, is_pressed) ==
    IF key_index >= KEY_COUNT THEN state
    ELSE [state EXCEPT !.key_inputs[key_index] = u8_from(is_pressed)]


\* ---------------------------------------------------------------- cpu.rs
\* mutant: a taken skip moves pc by one byte instead of one instruction
skip_next_one_byte(state) == [state EXCEPT !.pc = state.pc + 1]

\* pc += 2 of a taken skip (3XKK, 4XKK, 5XY0, 9XY0, EX9E, EXA1)
skip_next(state) == [state EXCEPT !.pc = state.pc + 2]

skip_if(state, condition) == IF condition THEN skip_next(state) ELSE state

\* mutant: BNNN without the 12-bit mask
jump_target_unmasked(nnn, offset) == nnn + offset

\* BNNN target
jump_target(nnn, offset) == BitAnd(nnn + offset, \H0FFF)

\* mutant: FX1E without the 12-bit mask
index_add_unmasked(index, value) == index + value

\* FX1E
index_add(index, value) == BitAnd(index + value, \H0FFF)

\* FX55 / FX65 increment of I under load_store_increment_i
index_after_load_store(index, x_reg) == BitAnd(index + x_reg + 1, \H0FFF)

\* mutant: `+= 1` in place of `^= 1`
toggle_pixel_add(cell) == cell + 1

\* state.screen_buffer[location] ^= 1
toggle_pixel(cell) == BitXor(cell, 1)

\* a bounds-checked write of memory[address]
mem_write(res, address, value) ==
    IF res.result # "Ok" THEN res
    ELSE IF address >= MEMORY_SIZE THEN Err(res.state, "panic")
    ELSE Ok([res.state EXCEPT !.memory[address] = value])

\* mutant: 00EE on an empty stack falls back to address 0, as unwrap_or(0) would
handle_family_0_lenient(state, opcode) ==
    CASE opcode = \H00E0 -> Ok(clear_display(state))
      [] opcode = \H00EE ->
            IF Len(state.stack) = 0 THEN Ok([state EXCEPT !.pc = 0])
            ELSE Ok([state EXCEPT !.pc = state.stack[Len(state.stack)],
                                  !.stack = SubSeq(state.stack, 1, Len(state.stack) - 1)])
      [] opcode = \H00FD -> Ok([state EXCEPT !.exited = TRUE])
      [] OTHER -> Ok(state)

\* mutant: 00FD flips exited instead of raising it
handle_family_0_exit_toggle(state, opcode) ==
    CASE opcode = \H00E0 -> Ok(clear_display(state))
      [] opcode = \H00EE ->
            IF Len(state.stack) = 0 THEN Err(state, "StackUnderflow")
            ELSE Ok([state EXCEPT !.pc = state.stack[Len(state.stack)],
                                  !.stack = SubSeq(state.stack, 1, Len(state.stack) - 1)])
      [] opcode = \H00FD -> Ok([state EXCEPT !.exited = ~state.exited])
      [] OTHER -> Ok(state)

\* mutant: family 0 knows its three opcodes and rejects the rest
handle_family_0_strict(state, opcode) ==
    CASE opcode = \H00E0 -> Ok(clear_display(state))
      [] opcode = \H00EE ->
            IF Len(state.stack) = 0 THEN Err(state, "StackUnderflow")
            ELSE Ok([state EXCEPT !.pc = state.stack[Len(state.stack)],
                                  !.stack = SubSeq(state.stack, 1, Len(state.stack) - 1)])
      [] opcode = \H00FD -> Ok([state EXCEPT !.exited = TRUE])
      [] OTHER -> Err(state, "InvalidOpcode")

handle_family_0(state, opcode) ==
    CASE opcode = \H00E0 -> Ok(clear_display(state))
      [] opcode = \H00EE ->
            IF Len(state.stack) = 0 THEN Err(state, "StackUnderflow")
            ELSE Ok([state EXCEPT !.pc = state.stack[Len(state.stack)],
                                  !.stack = SubSeq(state.stack, 1, Len(state.stack) - 1)])
      [] opcode = \H00FD -> Ok([state EXCEPT !.exited = TRUE])
      [] OTHER -> Ok(state)

\* mutant: 5XYn compares Vx and Vy whatever n is
handle_opcode_5xy0_any_nibble(state, opcode) ==
    Ok(skip_if(state, state.registers[x_register_index(opcode)]
                      = state.registers[y_register_index(opcode)]))

handle_opcode_5xy0_skip_eq_register(state, opcode) ==
    IF nibble_n(opcode) # 0 THEN Err(state, "InvalidOpcode")
    ELSE Ok(skip_if(state, state.registers[x_register_index(opcode)]
                           = state.registers[y_register_index(opcode)]))

\* mutant: an interpreter without 9XY0
handle_opcode_9xy0_unsupported(state, opcode) == Err(state, "InvalidOpcode")

handle_opcode_9xy0_skip_neq_register(state, opcode) ==
    IF nibble_n(opcode) # 0 THEN Err(state, "InvalidOpcode")
    ELSE Ok(skip_if(state, state.registers[x_register_index(opcode)]
                           # state.registers[y_register_index(opcode)]))

\* mutant: the shift always reads Vx, whatever the profile says
shift_source_vx(quirks, x_reg, y_reg) == x_reg

\* `let source = if quirks.shift_uses_vy { y_reg } else { x_reg }` of 8XY6 / 8XYE
shift_source(quirks, x_reg, y_reg) == IF quirks.shift_uses_vy THEN y_reg ELSE x_reg

handle_family_8(state, opcode, quirks) ==
    LET x_reg == x_register_index(opcode)
        y_reg == y_register_index(opcode)
        regs == state.registers
        source == shift_source(quirks, x_reg, y_reg)
    IN  CASE nibble_n(opcode) = 0 ->
                Ok([state EXCEPT !.registers[x_reg] = regs[y_reg]])
          [] nibble_n(opcode) = 1 ->
                Ok([state EXCEPT !.registers[x_reg] = BitOr(regs[x_reg], regs[y_reg])])
          [] nibble_n(opcode) = 2 ->
                Ok([state EXCEPT !.registers[x_reg] = BitAnd(regs[x_reg], regs[y_reg])])
          [] nibble_n(opcode) = 3 ->
                Ok([state EXCEPT !.registers[x_reg] = BitXor(regs[x_reg], regs[y_reg])])
          [] nibble_n(opcode) = 4 ->
                LET sum == regs[x_reg] + regs[y_reg]
                    flagged == [regs EXCEPT ![15] = u8_from(sum > 255)]
                IN  Ok([state EXCEPT !.registers = [flagged EXCEPT ![x_reg] = sum % 256]])
          [] nibble_n(opcode) = 5 ->
                LET flagged == [regs EXCEPT ![15] = u8_from(regs[x_reg] >= regs[y_reg])]
                IN  Ok([state EXCEPT !.registers =
                           [flagged EXCEPT ![x_reg] = (flagged[x_reg] - flagged[y_reg]) % 256]])
          [] nibble_n(opcode) = 6 ->
                LET value == regs[source]
                    flagged == [regs EXCEPT ![15] = value % 2]
                IN  Ok([state EXCEPT !.registers = [flagged EXCEPT ![x_reg] = value \div 2]])
          [] nibble_n(opcode) = 7 ->
                LET flagged == [regs EXCEPT ![15] = u8_from(regs[y_reg] >= regs[x_reg])]
                IN  Ok([state EXCEPT !.registers =
                           [flagged EXCEPT ![x_reg] = (flagged[y_reg] - flagged[x_reg]) % 256]])
          [] nibble_n(opcode) = 14 ->
                LET value == regs[source]
                    flagged == [regs EXCEPT ![15] = (value \div 128) % 2]
                IN  Ok([state EXCEPT !.registers = [flagged EXCEPT ![x_reg] = (value * 2) % 256]])
          [] OTHER -> Err(state, "InvalidOpcode")

\* mutant: the coordinate always wraps, whatever the profile says
pixel_position_wrapping(quirks, raw, limit) == raw % limit

\* the coordinate a sprite row or column lands on: wrapped under draw_wrap,
\* else kept, and -1 where the loop breaks because the sprite left the screen
pixel_position(quirks, raw, limit) ==
    IF quirks.draw_wrap THEN raw % limit
    ELSE IF raw >= limit THEN -1 ELSE raw

\* mutant: the flag follows the last pixel drawn and loses an earlier collision
collision_of_last_pixel(collision, cell) == cell

\* `if state.screen_buffer[location] == 1 { collision = 1; }`
collision_after(collision, cell) == IF cell = 1 THEN 1 ELSE collision

\* the inner `for bit in 0..8` loop of one sprite row; acc is [screen, collision]
RECURSIVE draw_bits(_, _, _, _, _, _)
draw_bits(acc, quirks, x_start, y_pos, sprite_row, bit) ==
    IF bit >= 8 THEN acc
    ELSE LET x_pos == pixel_position(quirks, x_start + bit, SCREEN_WIDTH)
             pixel == (sprite_row \div (2 ^ (7 - bit))) % 2
             location == x_pos + (y_pos * SCREEN_WIDTH)
         IN  IF x_pos = -1 THEN acc
             ELSE IF pixel = 0
                  THEN draw_bits(acc, quirks, x_start, y_pos, sprite_row, bit + 1)
                  ELSE draw_bits(
                           [screen |-> [acc.screen EXCEPT ![location] = toggle_pixel(@)],
                            collision |-> collision_after(acc.collision, acc.screen[location])],
                           quirks, x_start, y_pos, sprite_row, bit + 1)

\* the outer `for row in 0..height` loop; the result carries [screen, collision]
RECURSIVE draw_rows(_, _, _, _, _, _, _)
draw_rows(acc, state, quirks, x_start, y_start, height, row) ==
    IF row >= height THEN [acc |-> acc, result |-> "Ok"]
    ELSE LET y_pos == pixel_position(quirks, y_start + row, SCREEN_HEIGHT)
             sprite_address == state.index + row
         IN  IF y_pos = -1
             THEN [acc |-> acc, result |-> "Ok"]
             ELSE IF sprite_address >= MEMORY_SIZE
                  THEN [acc |-> acc, result |-> "ProgramCounterOutOfBounds"]
                  ELSE LET row_drawn == draw_bits(acc, quirks, x_start, y_pos,
                                                  state.memory[sprite_address], 0)
                       IN  \* the row is complete (its collision flag is read)
                           \* before the next row starts
                           IF row_drawn.collision >= 0
                           THEN draw_rows(row_drawn, state, quirks,
                                          x_start, y_start, height, row + 1)
                           ELSE [acc |-> row_drawn, result |-> "Ok"]

handle_opcode_dxyn_draw(state, opcode, quirks) ==
    LET x_start == state.registers[x_register_index(opcode)] % SCREEN_WIDTH
        y_start == state.registers[y_register_index(opcode)] % SCREEN_HEIGHT
        height == nibble_n(opcode)
        drawn == draw_rows([screen |-> state.screen_buffer, collision |-> 0],
                           state, quirks, x_start, y_start, height, 0)
    IN  IF drawn.result # "Ok"
        THEN Err([state EXCEPT !.screen_buffer = drawn.acc.screen], drawn.result)
        ELSE Ok([state EXCEPT !.screen_buffer = drawn.acc.screen,
                              !.registers[15] = drawn.acc.collision,
                              !.should_draw = TRUE])

handle_family_e(state, opcode) ==
    LET key == BitAnd(state.registers[x_register_index(opcode)], \H0F)
    IN  CASE byte_nn(opcode) = \H9E -> Ok(skip_if(state, state.key_inputs[key] = 1))
          [] byte_nn(opcode) = \HA1 -> Ok(skip_if(state, state.key_inputs[key] = 0))
          [] OTHER -> Err(state, "InvalidOpcode")

\* FX55: `for index in 0..=x_reg { memory[I + index] = registers[index] }`
RECURSIVE store_registers(_, _, _)
store_registers(res, i, x_reg) ==
    IF i > x_reg \/ res.result # "Ok" THEN res
    ELSE store_registers(mem_write(res, res.state.index + i, res.state.registers[i]),
                         i + 1, x_reg)

\* FX65: `for index in 0..=x_reg { registers[index] = memory[I + index] }`
RECURSIVE load_registers(_, _, _)
load_registers(res, i, x_reg) ==
    IF i > x_reg \/ res.result # "Ok" THEN res
    ELSE IF res.state.index + i >= MEMORY_SIZE THEN Err(res.state, "panic")
    ELSE load_registers(
             Ok([res.state EXCEPT !.registers[i] = res.state.memory[res.state.index + i]]),
             i + 1, x_reg)

increment_i(res, x_reg, quirks) ==
    IF res.result = "Ok" /\ quirks.load_store_increment_i
    THEN Ok([res.state EXCEPT !.index = index_after_load_store(res.state.index, x_reg)])
    ELSE res

\* mutant: FX0A does not rewind pc
rewound_pc_kept(state) == state.pc

\* `state.pc.saturating_sub(2)` of FX0A
rewound_pc(state) == IF state.pc >= 2 THEN state.pc - 2 ELSE 0

\* mutant: the tens digit without the `% 100`
bcd_tens_unreduced(value) == value \div 10

\* `(value % 100) / 10` of FX33
bcd_tens(value) == (value % 100) \div 10

handle_family_f(state, opcode, quirks) ==
    LET x_reg == x_register_index(opcode)
        value == state.registers[x_reg]
    IN  CASE byte_nn(opcode) = \H07 ->
                Ok([state EXCEPT !.registers[x_reg] = state.delay_timer])
          [] byte_nn(opcode) = \H0A ->
                IF first_pressed_key(state) # -1
                THEN Ok([state EXCEPT !.registers[x_reg] = first_pressed_key(state)])
                ELSE Ok([state EXCEPT !.pc = rewound_pc(state)])
          [] byte_nn(opcode) = \H15 -> Ok([state EXCEPT !.delay_timer = value])
          [] byte_nn(opcode) = \H18 -> Ok([state EXCEPT !.sound_timer = value])
          [] byte_nn(opcode) = \H1E ->
                Ok([state EXCEPT !.index = index_add(state.index, value)])
          [] byte_nn(opcode) = \H29 ->
                Ok([state EXCEPT !.index = BitAnd(value, \H0F) * 5])
          [] byte_nn(opcode) = \H33 ->
                mem_write(mem_write(mem_write(Ok(state),
                              state.index, value \div 100),
                              state.index + 1, bcd_tens(value)),
                              state.index + 2, value % 10)
          [] byte_nn(opcode) = \H55 ->
                increment_i(store_registers(Ok(state), 0, x_reg), x_reg, quirks)
          [] byte_nn(opcode) = \H65 ->
                increment_i(load_registers(Ok(state), 0, x_reg), x_reg, quirks)
          [] OTHER -> Err(state, "InvalidOpcode")

\* mutant: CALL pushes the address of the CALL itself
call_address(state) == state.pc - 2

\* `state.stack.push(state.pc as u16)`: pc is already past the CALL
return_address(state) == state.pc % 65536

\* mutant: BNNN always adds V0, whatever the profile says
jump_register_v0(quirks, x_reg) == 0

\* `let jump_register = if quirks.jump_with_vx { x_reg } else { 0 }`
jump_register(quirks, x_reg) == IF quirks.jump_with_vx THEN x_reg ELSE 0

\* mutant: 7XKK reports its carry in VF, as 8XY4 does
add_immediate_carry(regs, x_reg, kk) ==
    [[regs EXCEPT ![15] = u8_from(regs[x_reg] + kk > 255)]
        EXCEPT ![x_reg] = (regs[x_reg] + kk) % 256]

\* 7XKK: `state.registers[x_reg] = state.registers[x_reg].wrapping_add(byte_nn(opcode))`
add_immediate(regs, x_reg, kk) ==
    [regs EXCEPT ![x_reg] = (regs[x_reg] + kk) % 256]

\* random_byte is the value random::<u8>() returns in CXKK
execute_opcode(state, opcode, quirks, random_byte) ==
    LET s == [state EXCEPT !.op = opcode]
        family == opcode \div 4096
        x_reg == x_register_index(opcode)
    IN  CASE family = 0 -> handle_family_0(s, opcode)
          [] family = 1 -> Ok([s EXCEPT !.pc = address_nnn(opcode)])
          [] family = 2 -> Ok([s EXCEPT !.stack = Append(s.stack, return_address(s)),
                                        !.pc = address_nnn(opcode)])
          [] family = 3 -> Ok(skip_if(s, s.registers[x_reg] = byte_nn(opcode)))
          [] family = 4 -> Ok(skip_if(s, s.registers[x_reg] # byte_nn(opcode)))
          [] family = 5 -> handle_opcode_5xy0_skip_eq_register(s, opcode)
          [] family = 6 -> Ok([s EXCEPT !.registers[x_reg] = byte_nn(opcode)])
          [] family = 7 ->
                Ok([s EXCEPT !.registers = add_immediate(s.registers, x_reg, byte_nn(opcode))])
          [] family = 8 -> handle_family_8(s, opcode, quirks)
          [] family = 9 -> handle_opcode_9xy0_skip_neq_register(s, opcode)
          [] family = 10 -> Ok([s EXCEPT !.index = address_nnn(opcode)])
          [] family = 11 ->
                Ok([s EXCEPT !.pc = jump_target(address_nnn(opcode),
                                                s.registers[jump_register(quirks, x_reg)])])
          [] family = 12 ->
                Ok([s EXCEPT !.registers[x_reg] = BitAnd(random_byte, byte_nn(opcode))])
          [] family = 13 -> handle_opcode_dxyn_draw(s, opcode, quirks)
          [] family = 14 -> handle_family_e(s, opcode)
          [] family = 15 -> handle_family_f(s, opcode, quirks)
          [] OTHER -> Err(s, "InvalidOpcode")

\* mutant: the guard lets pc = 0xFFF through to the fetch
pc_out_of_bounds_late(state) == state.pc > (MEMORY_SIZE - 1)

\* the guard of execute_cycle: no two bytes left to fetch at pc
pc_out_of_bounds(state) == state.pc > (MEMORY_SIZE - 2)

\* ((memory[pc] as u16) << 8) | memory[pc + 1]
fetch_opcode(state) == state.memory[state.pc] * 256 + state.memory[state.pc + 1]

\* mutant: the cycle also counts the timers down, as a per-cycle timer would
execute_cycle_ticking(state, quirks, random_byte) ==
    IF pc_out_of_bounds(state) THEN Err(state, "ProgramCounterOutOfBounds")
    ELSE IF state.pc + 1 >= MEMORY_SIZE THEN Err(state, "panic")
    ELSE LET r == execute_opcode([state EXCEPT !.pc = state.pc + 2],
                                 fetch_opcode(state), quirks, random_byte)
         IN  [r EXCEPT !.state.delay_timer = IF @ > 0 THEN @ - 1 ELSE 0,
                       !.state.sound_timer = IF @ > 0 THEN @ - 1 ELSE 0]

execute_cycle(state, quirks, random_byte) ==
    IF pc_out_of_bounds(state) THEN Err(state, "ProgramCounterOutOfBounds")
    ELSE IF state.pc + 1 >= MEMORY_SIZE THEN Err(state, "panic")
    ELSE execute_opcode([state EXCEPT !.pc = state.pc + 2],
                        fetch_opcode(state), quirks, random_byte)

\* mutant: wrapping_sub in place of saturating_sub
wrapping_sub(value, amount) == (value - amount) % 256

\* delay_timer.saturating_sub(1)
saturating_sub(value, amount) == IF value >= amount THEN value - amount ELSE 0

\* mutant: the tick also raises should_draw
tick_timers_redraw(state, has_callback) ==
    LET ticked == [state EXCEPT !.delay_timer = saturating_sub(state.delay_timer, 1),
                                !.should_draw = TRUE]
    IN  IF ticked.sound_timer > 0
        THEN [state |-> [ticked EXCEPT !.sound_timer = ticked.sound_timer - 1],
              beeps |-> IF has_callback THEN 1 ELSE 0]
        ELSE [state |-> ticked, beeps |-> 0]

\* has_callback: sound_callback is Some(..); beeps counts the callback's invocations
tick_timers(state, has_callback) ==
    LET ticked == [state EXCEPT !.delay_timer = saturating_sub(state.delay_timer, 1)]
    IN  IF ticked.sound_timer > 0
        THEN [state |-> [ticked EXCEPT !.sound_timer = ticked.sound_timer - 1],
              beeps |-> IF has_callback THEN 1 ELSE 0]
        ELSE [state |-> ticked, beeps |-> 0]


\* ------------------------------------------------- assembler: encoding.rs
\* A token is a sequence of characters (one-character strings). A result is
\* [ok, value, error]: Ok(value), or an AssemblerError named by its message.
ok_value(value) == [ok |-> TRUE, value |-> value, error |-> ""]

asm_err(message) == [ok |-> FALSE, value |-> 0, error |-> message]

LowerCase == << "a", "b", "c", "d", "e", "f", "g", "h", "i", "j", "k", "l", "m",
                "n", "o", "p", "q", "r", "s", "t", "u", "v", "w", "x", "y", "z" >>

UpperCase == << "A", "B", "C", "D", "E", "F", "G", "H", "I", "J", "K", "L", "M",
                "N", "O", "P", "Q", "R", "S", "T", "U", "V", "W", "X", "Y", "Z" >>

DigitChars == << "0", "1", "2", "3", "4", "5", "6", "7", "8", "9" >>

\* the ASCII characters of the model other than letters and digits, with
\* their codes
OtherChars == << "_", "-", "+", "$", "'", "[", "]", "\"" >>

OtherCodes == << 95, 45, 43, 36, 39, 91, 93, 34 >>

\* the characters of a sequence
Range(chars) == { chars[i] : i \in DOMAIN chars }

\* the position of ch in chars, 0 when it is not there
char_index(chars, ch) ==
    IF \E i \in DOMAIN chars : chars[i] = ch
    THEN CHOOSE i \in DOMAIN chars : chars[i] = ch
    ELSE 0

\* ch as i32 / ch as u32, for the ASCII characters of the model
char_code(ch) ==
    IF ch \in Range(UpperCase) THEN 64 + char_index(UpperCase, ch)
    ELSE IF ch \in Range(LowerCase) THEN 96 + char_index(LowerCase, ch)
    ELSE IF ch \in Range(DigitChars) THEN 47 + char_index(DigitChars, ch)
    ELSE IF ch \in Range(OtherChars) THEN OtherCodes[char_index(OtherChars, ch)]
    ELSE 32

to_ascii_uppercase(ch) ==
    IF ch \in Range(LowerCase) THEN UpperCase[char_index(LowerCase, ch)] ELSE ch

uppercased(token) == [i \in DOMAIN token |-> to_ascii_uppercase(token[i])]

\* Some(digit) when the digit is one of the radix; -1 is None
digit_in_radix(digit, radix) == IF digit >= 0 /\ digit < radix THEN digit ELSE -1

\* char::to_digit(radix): 0-9, then a-z or A-Z for 10..35
to_digit(ch, radix) ==
    digit_in_radix(char_index(DigitChars \o UpperCase, to_ascii_uppercase(ch)) - 1, radix)

starts_with(token, prefix) ==
    Len(token) >= Len(prefix) /\ SubSeq(token, 1, Len(prefix)) = prefix

strip_prefix(token, prefix) == SubSeq(token, Len(prefix) + 1, Len(token))

I32_MAX == 2147483647

I32_MIN == -I32_MAX - 1

\* the digit loop of i32::from_str_radix: checked_mul and checked_add (or
\* checked_sub for a negative number); a bad digit or an overflow is an error
RECURSIVE radix_digits(_, _, _, _)
RECURSIVE checked_digit(_, _, _, _, _)
radix_digits(digits, radix, negative, acc) ==
    IF digits = << >> THEN ok_value(acc)
    ELSE checked_digit(to_digit(Head(digits), radix), Tail(digits), radix, negative, acc)

\* one pass of the loop, for the digit of the next character
checked_digit(digit, rest, radix, negative, acc) ==
    IF digit < 0 THEN asm_err("invalid digit")
    ELSE IF ~negative /\ acc > (I32_MAX - digit) \div radix
    THEN asm_err("number too large")
    ELSE IF negative /\ acc < (I32_MIN + digit + radix - 1) \div radix
    THEN asm_err("number too small")
    ELSE radix_digits(rest, radix, negative,
                      IF negative THEN acc * radix - digit ELSE acc * radix + digit)

\* i32::from_str_radix(text, radix): an optional sign, then at least one digit
from_str_radix(text, radix) ==
    LET signed == text # << >> /\ Head(text) \in {"+", "-"}
    IN  IF text = << >> THEN asm_err("empty")
        ELSE IF signed /\ Len(text) = 1 THEN asm_err("invalid digit")
        ELSE radix_digits(IF signed THEN Tail(text) ELSE text, radix,
                          Head(text) = "-", 0)

parse_prefixed_int(token) ==
    LET prefixed(lower, upper) ==
            starts_with(token, << "0", lower >>) \/ starts_with(token, << "0", upper >>)
        radix == IF prefixed("x", "X") THEN 16
                 ELSE IF prefixed("b", "B") THEN 2
                 ELSE IF prefixed("o", "O") THEN 8
                 ELSE 10
    IN  \* every prefix is two characters long
        from_str_radix(IF radix = 10 THEN token ELSE SubSeq(token, 3, Len(token)), radix)

\* if let Ok(parsed) = .. { return Ok(parsed) }  Err("invalid value ..")
or_invalid_value(parsed) == IF parsed.ok THEN parsed ELSE asm_err("invalid value")

parse_numeric_literal(token) ==
    LET value == IF starts_with(token, << "$" >>)
                 THEN << "0", "x" >> \o strip_prefix(token, << "$" >>)
                 ELSE token
    IN  IF Len(value) = 3 /\ value[1] = "'" /\ value[3] = "'"
        THEN ok_value(char_code(value[2]))
        ELSE or_invalid_value(parse_prefixed_int(value))

\* usize arithmetic wraps at 2^64 (2^32 on a 32-bit target), which is beyond
\* the integers of the checker: the modulus is scaled to 2^30, far above
\* every address and literal of the model
USIZE_MODULUS == 1073741824

\* value as usize, for an i32 value
as_usize(value) == value % USIZE_MODULUS

\* value as i32, for a usize value: the low bits, read as a signed number
as_i32(value) == IF value >= USIZE_MODULUS \div 2 THEN value - USIZE_MODULUS ELSE value

\* labels is a function from label names to addresses
parse_value(token, labels) ==
    IF token \in DOMAIN labels THEN ok_value(as_i32(labels[token]))
    ELSE parse_numeric_literal(token)

\* mutant: the upper limit is not checked
ensure_range_unbounded(value, minimum, maximum, label) ==
    IF value < minimum THEN asm_err(label) ELSE ok_value(value)

\* the error is "<label> out of range"
ensure_range(value, minimum, maximum, label) ==
    IF value < minimum \/ value > maximum THEN asm_err(label) ELSE ok_value(value)

\* let value = parsed?; ensure_range(value, 0, maximum, label)?
ranged(parsed, maximum, label) ==
    IF ~parsed.ok THEN parsed ELSE ensure_range(parsed.value, 0, maximum, label)

\* the value of a token that has to lie in 0..maximum:
\* parse_value(..)? followed by ensure_range(..)?
ranged_value(token, labels, maximum, label) ==
    ranged(parse_value(token, labels), maximum, label)

\* reg_text.parse::<u16>() and the check reg <= 15
small_register(reg) ==
    IF reg.ok /\ reg.value <= 15 THEN ok_value(reg.value) ELSE asm_err("invalid register")

\* the register named by the text after the V
register_number(reg_text) ==
    IF Len(reg_text) = 1 /\ to_digit(reg_text[1], 16) >= 0
    THEN ok_value(to_digit(reg_text[1], 16))
    ELSE IF \A i \in DOMAIN reg_text : reg_text[i] \in Range(DigitChars)
    THEN small_register(radix_digits(reg_text, 10, FALSE, 0))
    ELSE asm_err("invalid register")

parse_register(token) ==
    IF ~starts_with(uppercased(token), << "V" >>) THEN asm_err("expected register")
    ELSE register_number(strip_prefix(uppercased(token), << "V" >>))

is_register(token) == parse_register(token).ok

expect_arg_count(arguments, expected) ==
    IF Len(arguments) # expected THEN asm_err("argument count") ELSE ok_value(0)

\* opcode | (field * scale) in u16, after the ? of both results
or_field(opcode, field, scale) ==
    IF ~opcode.ok THEN opcode
    ELSE IF ~field.ok THEN field
    ELSE ok_value(BitOr(opcode.value, (field.value * scale) % 65536))

\* mnemonic is the upper-case operation name, arguments a sequence of tokens
encode_instruction(mnemonic, arguments, labels) ==
    LET argc == Len(arguments)
        \* expect_arg_count(..)?; then the encoding
        counted(expected, encoded) ==
            IF argc # expected THEN expect_arg_count(arguments, expected) ELSE encoded
        special(i) == uppercased(arguments[i])
        \* base | (x_reg << 8)
        with_x(base, i) == or_field(ok_value(base), parse_register(arguments[i]), 256)
        \* base | (x_reg << 8) | (y_reg << 4)
        with_x_y(base, i, j) == or_field(with_x(base, i), parse_register(arguments[j]), 16)
        \* base | value as u16
        with_value(base, i, maximum, label) ==
            or_field(ok_value(base), ranged_value(arguments[i], labels, maximum, label), 1)
        \* base | (x_reg << 8) | nn as u16
        with_x_value(base, i, j, maximum, label) ==
            or_field(with_x(base, i), ranged_value(arguments[j], labels, maximum, label), 1)
        \* the register form when the second argument is a register, else the byte form
        register_or_byte(register_base, byte_base) ==
            IF is_register(arguments[2]) THEN with_x_y(register_base, 1, 2)
            ELSE with_x_value(byte_base, 1, 2, \HFF, "byte")
        tail == CASE mnemonic = "OR" -> 1
                  [] mnemonic = "AND" -> 2
                  [] mnemonic = "XOR" -> 3
                  [] mnemonic = "SUB" -> 5
                  [] mnemonic = "SUBN" -> 7
                  [] mnemonic = "SHR" -> 6
                  [] OTHER -> 14
        load ==
            IF is_register(special(1))
            THEN IF is_register(special(2)) THEN with_x_y(\H8000, 1, 2)
                 ELSE IF special(2) \in {<< "D", "T" >>, << "K" >>, << "[", "I", "]" >>}
                 THEN with_x(CASE special(2) = << "D", "T" >> -> \HF007
                               [] special(2) = << "K" >> -> \HF00A
                               [] OTHER -> \HF065, 1)
                 ELSE with_x_value(\H6000, 1, 2, \HFF, "byte")
            ELSE IF special(1) = << "I" >> THEN with_value(\HA000, 2, \H0FFF, "address")
            ELSE IF special(1) \in {<< "D", "T" >>, << "S", "T" >>, << "F" >>, << "B" >>,
                                    << "[", "I", "]" >>}
            THEN with_x(CASE special(1) = << "D", "T" >> -> \HF015
                          [] special(1) = << "S", "T" >> -> \HF018
                          [] special(1) = << "F" >> -> \HF029
                          [] special(1) = << "B" >> -> \HF033
                          [] OTHER -> \HF055, 2)
            ELSE asm_err("unsupported LD form")
    IN  CASE mnemonic \in {"CLS", "RET", "EXIT"} ->
                counted(0, ok_value(CASE mnemonic = "CLS" -> \H00E0
                                      [] mnemonic = "RET" -> \H00EE
                                      [] OTHER -> \H00FD))
          [] mnemonic = "JP" ->
                IF argc = 1 THEN with_value(\H1000, 1, \H0FFF, "address")
                ELSE IF argc = 2 THEN with_x_value(\HB000, 1, 2, \HFF, "byte")
                ELSE asm_err("argument count")
          [] mnemonic = "CALL" -> counted(1, with_value(\H2000, 1, \H0FFF, "address"))
          [] mnemonic = "SE" -> counted(2, register_or_byte(\H5000, \H3000))
          [] mnemonic = "SNE" -> counted(2, register_or_byte(\H9000, \H4000))
          [] mnemonic = "LD" -> counted(2, load)
          [] mnemonic = "ADD" ->
                counted(2, IF special(1) = << "I" >> THEN with_x(\HF01E, 2)
                           ELSE register_or_byte(\H8004, \H7000))
          [] mnemonic \in {"OR", "AND", "XOR", "SUB", "SUBN"} ->
                counted(2, with_x_y(\H8000 + tail, 1, 2))
          [] mnemonic \in {"SHR", "SHL"} ->
                IF argc # 1 /\ argc # 2 THEN asm_err("argument count")
                ELSE with_x_y(\H8000 + tail, 1, argc)
          [] mnemonic = "RND" -> counted(2, with_x_value(\HC000, 1, 2, \HFF, "byte"))
          [] mnemonic = "DRW" ->
                counted(3, or_field(with_x_y(\HD000, 1, 2),
                                    ranged_value(arguments[3], labels, \H0F, "nibble"), 1))
          [] mnemonic \in {"SKP", "SKNP"} ->
                counted(1, with_x(IF mnemonic = "SKP" THEN \HE09E ELSE \HE0A1, 1))
          [] OTHER -> asm_err("unknown instruction")

\* ------------------------------------------------ assembler: assembler.rs
\* A source line after strip_comments, split_labels' scan and
\* split_operation_and_arguments: the label candidates before the colons, the
\* normalized operation ("" when nothing follows the labels) and the argument
\* tokens.
source_line(labels, operation, arguments) ==
    [labels |-> labels, operation |-> operation, arguments |-> arguments]

validate_label(label) ==
    /\ label # << >>
    /\ label[1] \in Range(UpperCase) \cup Range(LowerCase) \cup {"_"}
    /\ \A i \in 2..Len(label) :
          label[i] \in Range(UpperCase) \cup Range(LowerCase) \cup Range(DigitChars) \cup {"_"}

\* mutant: a label defined again takes the new address
RECURSIVE insert_labels_overwriting(_, _, _)
insert_labels_overwriting(labels, line_labels, program_counter) ==
    IF line_labels = << >> THEN [ok |-> TRUE, labels |-> labels]
    ELSE insert_labels_overwriting((Head(line_labels) :> program_counter) @@ labels,
                                   Tail(line_labels), program_counter)

\* for label in line_labels { if labels.contains_key(&label) { return Err(..) }
\*                            labels.insert(label, program_counter); }
RECURSIVE insert_labels(_, _, _)
insert_labels(labels, line_labels, program_counter) ==
    IF line_labels = << >> THEN [ok |-> TRUE, labels |-> labels]
    ELSE IF Head(line_labels) \in DOMAIN labels THEN [ok |-> FALSE, labels |-> labels]
    ELSE insert_labels((Head(line_labels) :> program_counter) @@ labels,
                       Tail(line_labels), program_counter)

classify_operation(operation) ==
    CASE operation = "ORG" -> "DirectiveOrg"
      [] operation = "DB" -> "DirectiveDb"
      [] operation = "DW" -> "DirectiveDw"
      [] OTHER -> "Instruction"

\* Some(text) for a token in matching quotes, None otherwise
parse_string_literal(token) ==
    IF Len(token) >= 2 /\ token[1] \in {"'", "\""} /\ token[1] = token[Len(token)]
    THEN [some |-> TRUE, text |-> SubSeq(token, 2, Len(token) - 1)]
    ELSE [some |-> FALSE, text |-> << >>]

\* text.chars().count() for a string literal, 1 for any other argument
db_argument_count(text) == IF text.some THEN Len(text.text) ELSE 1

RECURSIVE db_byte_total(_)
db_byte_total(arguments) ==
    IF arguments = << >> THEN 0
    ELSE db_argument_count(parse_string_literal(Head(arguments)))
            + db_byte_total(Tail(arguments))

\* if total == 0 { Err("DB produced no bytes") } else { Ok(total) }
nonzero_total(total) ==
    IF total = 0 THEN asm_err("DB produced no bytes") ELSE ok_value(total)

\* mutant: a string literal counts as one byte
count_db_bytes_per_argument(arguments) == ok_value(Len(arguments))

count_db_bytes(arguments) == nonzero_total(db_byte_total(arguments))

\* mutant: one byte per word
dw_byte_total_single(arguments) == Len(arguments)

\* 2 * arguments.len()
dw_byte_total(arguments) == 2 * Len(arguments)

\* the checks of ORG in pass 1 on `parsed? as usize`
org_target(parsed, origin, program_counter) ==
    IF ~parsed.ok THEN parsed
    ELSE IF as_usize(parsed.value) < origin THEN asm_err("ORG target below origin")
    ELSE IF as_usize(parsed.value) < program_counter
    THEN asm_err("ORG target moves backwards")
    ELSE ok_value(as_usize(parsed.value))

\* program_counter += count?
advanced_by(count, program_counter) ==
    IF ~count.ok THEN count ELSE ok_value(program_counter + count.value)

\* pass 1 of one statement: Ok(the program counter after it); a value of
\* USIZE_MODULUS or more is an addition that overflowed
advance_program_counter(kind, arguments, origin, program_counter) ==
    CASE kind = "DirectiveOrg" ->
            IF Len(arguments) # 1 THEN asm_err("ORG expects exactly one argument")
            ELSE org_target(parse_numeric_literal(arguments[1]), origin, program_counter)
      [] kind = "DirectiveDb" ->
            IF arguments = << >> THEN asm_err("DB expects at least one argument")
            ELSE advanced_by(count_db_bytes(arguments), program_counter)
      [] kind = "DirectiveDw" ->
            IF arguments = << >> THEN asm_err("DW expects at least one argument")
            ELSE ok_value(program_counter + dw_byte_total(arguments))
      [] OTHER -> ok_value(program_counter + 2)

\* a result of pass 2 is [ok, bytes, error]
ok_bytes(bytes) == [ok |-> TRUE, bytes |-> bytes, error |-> ""]

err_bytes(message) == [ok |-> FALSE, bytes |-> << >>, error |-> message]

\* the bytes of the first argument, then those of the arguments after it;
\* the first error ends the loop
bytes_then(first, rest) ==
    IF ~first.ok THEN first
    ELSE IF ~rest.ok THEN rest
    ELSE ok_bytes(first.bytes \o rest.bytes)

\* values.push(byte as u8) after parse_value(..)? and ensure_range(..)?
byte_pushed(byte) == IF ~byte.ok THEN err_bytes(byte.error) ELSE ok_bytes(<< byte.value >>)

\* values.extend(text.chars().map(|ch| (ch as u32 & 0xFF) as u8))
text_bytes(text) == ok_bytes([i \in DOMAIN text |-> char_code(text[i]) % 256])

RECURSIVE encode_db_values(_, _)
encode_db_values(arguments, labels) ==
    IF arguments = << >> THEN ok_bytes(<< >>)
    ELSE bytes_then(IF parse_string_literal(Head(arguments)).some
                    THEN text_bytes(parse_string_literal(Head(arguments)).text)
                    ELSE byte_pushed(ranged_value(Head(arguments), labels, \HFF, "byte")),
                    encode_db_values(Tail(arguments), labels))

\* mutant: the low byte of a word comes first
word_bytes_little_endian(word) == << word % 256, (word \div 256) % 256 >>

\* ((word >> 8) & 0xFF) as u8, (word & 0xFF) as u8
word_bytes(word) == << (word \div 256) % 256, word % 256 >>

\* output.push(high); output.push(low) after the ? of the word
word_pushed(word) ==
    IF ~word.ok THEN err_bytes(word.error) ELSE ok_bytes(word_bytes(word.value))

RECURSIVE encode_dw_values(_, _)
encode_dw_values(arguments, labels) ==
    IF arguments = << >> THEN ok_bytes(<< >>)
    ELSE bytes_then(word_pushed(ranged_value(Head(arguments), labels, \HFFFF, "word")),
                    encode_dw_values(Tail(arguments), labels))

\* output.extend(vec![0; target - current_address]) after the check of the
\* target; "capacity overflow" is the panic of vec![0; n] for n above isize::MAX
org_padding(parsed, current_address) ==
    IF ~parsed.ok THEN err_bytes(parsed.error)
    ELSE IF as_usize(parsed.value) < current_address
    THEN err_bytes("ORG target moves backwards")
    ELSE IF as_usize(parsed.value) - current_address >= USIZE_MODULUS \div 2
    THEN err_bytes("capacity overflow")
    ELSE ok_bytes([i \in 1..(as_usize(parsed.value) - current_address) |-> 0])

\* pass 2 of one statement: the bytes it appends to the output
encode_statement(statement, labels, current_address) ==
    CASE statement.kind = "DirectiveOrg" ->
            org_padding(parse_value(statement.arguments[1], labels), current_address)
      [] statement.kind = "DirectiveDb" -> encode_db_values(statement.arguments, labels)
      [] statement.kind = "DirectiveDw" -> encode_dw_values(statement.arguments, labels)
      [] OTHER ->
            word_pushed(encode_instruction(statement.operation, statement.arguments,
                                           labels))

\* ------------------------------------------------------------- ROM images
\* a ROM file is a sequence of bytes; programs are written as 16-bit words,
\* stored big-endian
RECURSIVE words_to_bytes(_)
words_to_bytes(words) ==
    IF words = << >> THEN << >>
    ELSE << Head(words) \div 256, Head(words) % 256 >> \o words_to_bytes(Tail(words))

\* a full-size ROM: head at PROGRAM_START, tail ending at the last byte of memory
rom_image(head, tail) ==
    LET h == words_to_bytes(head)
        t == words_to_bytes(tail)
        size == MEMORY_SIZE - PROGRAM_START
    IN  IF t = << >> THEN h
        ELSE [i \in 1..size |->
                 IF i <= Len(h) THEN h[i]
                 ELSE IF i > size - Len(t) THEN t[i - (size - Len(t))]
                 ELSE 0]

Roms ==
    { \* run off the end of memory: fetch at 0xFFE, skips at 0xFFC / 0xFFE
      rom_image(<< \H1FFE >>, << >>),
      rom_image(<< \H1FFC >>, << \H3000, \H3000 >>),
      rom_image(<< \H1FFE >>, << \H3000, \H3000 >>),
      \* CALL fetched at 0xFFE, RET back to 0x1000
      rom_image(<< \H1FFE, \H0000, \H00EE >>, << \H0000, \H2204 >>),
      \* jump to the odd address 0x203, where bytes 60 05 12 03 decode
      rom_image(<< \H1203, \H0060, \H0512, \H0300 >>, << >>),
      \* call / return / exit
      rom_image(<< \H2204, \H00FD, \H00EE >>, << >>),
      \* a call inside a call
      rom_image(<< \H2204, \H00FD, \H2208, \H00EE, \H00EE >>, << >>),
      \* BNNN with an offset that passes 0xFFF
      rom_image(<< \H60FF, \HBFFF >>, << >>),
      \* timers
      rom_image(<< \H6002, \HF015, \H6101, \HF118, \HF207 >>, << >>),
      \* BCD, store and load at the end of memory
      rom_image(<< \HAFFE, \H60FF, \HF033 >>, << >>),
      rom_image(<< \HAFFF, \H6001, \H6102, \HF155 >>, << >>),
      rom_image(<< \HAFFF, \HF065, \HF165 >>, << >>),
      \* index arithmetic
      rom_image(<< \HAFFF, \H60FF, \HF01E, \HF029, \HF055 >>, << >>),
      \* drawing: overlapping glyphs, clear, edge of the screen, sprite past memory
      rom_image(<< \HA000, \HD015, \H6002, \HD015, \H00E0 >>, << >>),
      rom_image(<< \H603E, \H611E, \HA005, \HD015 >>, << >>),
      rom_image(<< \HAFFF, \HD002 >>, << >>),
      \* keypad
      rom_image(<< \HF00A, \HE09E, \HE0A1 >>, << >>),
      \* random, skips
      rom_image(<< \HC1FF, \H3100, \H4100, \H5100, \H9100 >>, << >>),
      \* arithmetic with VF as operand
      rom_image(<< \H6FF0, \H6120, \H8F14, \H81F5, \H8F1E >>, << >>),
      \* failing instructions
      rom_image(<< \H6105, \HF115, \HA300, \H00EE >>, << >>),
      rom_image(<< \H8008 >>, << >>) }

QuirkProfiles == {ORIGINAL_QUIRKS, MODERN_QUIRKS}

\* values random::<u8>() is drawn from
RandomSamples == {0, \HA5, \HFF}

\* keys the host presses and releases (16 is outside the keypad)
KeySamples == {1, 5, 16}

\* ------------------------------------------------------------------ state
VARIABLES
    memory, registers, stack, key_inputs, screen_buffer, pc, index,
    delay_timer, sound_timer, should_draw, exited, op,
    quirks,      \* the profile of the run
    result,      \* what that call returned
    cycles,      \* instructions the host has asked for so far
    run,         \* the tick_timers calls since the last other call:
                 \* n ticks, timers d0 / s0 before them, beeps heard,
                 \* cb: every tick was given a callback
    hist,        \* the calls of the run: calls / rets count the 2NNN executed
                 \* and the 00EE that succeeded, sites lists the addresses the
                 \* pending 2NNN were fetched at, back is the address of the
                 \* 2NNN the last 00EE returned from (-1 before any); resets
                 \* counts the reset_state calls made after create_state, over
                 \* tells whether the last one found a used machine
    rom_path,    \* EmulatorState.rom_path: whether it is Some(..), and the
                 \* bytes of the file it names
    headless,    \* the locals of run_emulator_headless: its arguments
                 \* max_cycles and cpu_hz, the loop index i, and where it
                 \* stands (phase); ticks counts its tick_timers calls
    asm,         \* the locals of assemble_text: source and origin, the
                 \* lines parsed (line_no), program_counter, labels and
                 \* statements of pass 1, the statements encoded (cursor),
                 \* current_address and output of pass 2, the error returned;
                 \* pcs and cursors list the program counter and the address
                 \* cursor each statement was met at
    host         \* the locals of run_emulator_app's loop: front_buffer, the
                 \* frame the window shows, frame_in_progress_after_clear and
                 \* has_draw_since_clear; unpublished tells whether a DXYN
                 \* has run that no copy into front_buffer has followed

machine == << memory, registers, stack, key_inputs, screen_buffer, pc, index,
              delay_timer, sound_timer, should_draw, exited, op >>

vars == << memory, registers, stack, key_inputs, screen_buffer, pc, index,
           delay_timer, sound_timer, should_draw, exited, op,
           quirks, result, cycles, run, hist, rom_path, headless, asm, host >>

\* the EmulatorState value the variables hold
State ==
    [memory |-> memory, registers |-> registers, stack |-> stack,
     key_inputs |-> key_inputs, screen_buffer |-> screen_buffer, pc |-> pc,
     index |-> index, delay_timer |-> delay_timer, sound_timer |-> sound_timer,
     should_draw |-> should_draw, exited |-> exited, op |-> op]

Install(state) ==
    /\ memory' = state.memory
    /\ registers' = state.registers
    /\ stack' = state.stack
    /\ key_inputs' = state.key_inputs
    /\ screen_buffer' = state.screen_buffer
    /\ pc' = state.pc
    /\ index' = state.index
    /\ delay_timer' = state.delay_timer
    /\ sound_timer' = state.sound_timer
    /\ should_draw' = state.should_draw
    /\ exited' = state.exited
    /\ op' = state.op

Holds(state) ==
    /\ memory = state.memory
    /\ registers = state.registers
    /\ stack = state.stack
    /\ key_inputs = state.key_inputs
    /\ screen_buffer = state.screen_buffer
    /\ pc = state.pc
    /\ index = state.index
    /\ delay_timer = state.delay_timer
    /\ sound_timer = state.sound_timer
    /\ should_draw = state.should_draw
    /\ exited = state.exited
    /\ op = state.op

fresh_run(state) ==
    [n |-> 0, d0 |-> state.delay_timer, s0 |-> state.sound_timer, beeps |-> 0, cb |-> TRUE]

no_calls == [calls |-> 0, rets |-> 0, sites |-> << >>, back |-> -1, resets |-> 0,
             over |-> FALSE]

\* rom_path: None
no_rom_path == [some |-> FALSE, bytes |-> << >>]

\* Some(path) of a file that holds rom_bytes
some_rom_path(rom_bytes) == [some |-> TRUE, bytes |-> rom_bytes]

no_error == [message |-> "", line_no |-> 0]

\* AssemblerError::new(message, Some(line_no))
error_at(message, line_no) == [message |-> message, line_no |-> line_no]

\* assemble_text is not running
no_asm == [phase |-> "none"]

\* run_emulator_app is not running
no_host == [front_buffer |-> << >>, frame_in_progress_after_clear |-> FALSE,
            has_draw_since_clear |-> FALSE, unpublished |-> FALSE]

\* run_emulator_headless is not running
no_headless == [max_cycles |-> 0, cpu_hz |-> 0, i |-> 0, phase |-> "none", ticks |-> 0]

\* the history after the opcode fetched at address fetched_at returned outcome
record_call(h, opcode, fetched_at, outcome) ==
    CASE opcode \div 4096 = 2 ->
            [h EXCEPT !.calls = @ + 1, !.sites = Append(@, fetched_at)]
      [] opcode = \H00EE /\ outcome = "Ok" ->
            IF Len(h.sites) = 0 THEN [h EXCEPT !.rets = @ + 1, !.back = -1]
            ELSE [h EXCEPT !.rets = @ + 1,
                           !.back = h.sites[Len(h.sites)],
                           !.sites = SubSeq(h.sites, 1, Len(h.sites) - 1)]
      [] OTHER -> h

\* create_state(Some(rom_path)) under a quirks profile
Init ==
    \E rom \in Roms, q \in QuirkProfiles :
        LET created == create_state(TRUE, rom)
        IN  /\ Holds(created.state)
            /\ quirks = q
            /\ result = created.result
            /\ cycles = 0
            /\ run = fresh_run(created.state)
            /\ hist = no_calls
            /\ host = no_host
            /\ rom_path = some_rom_path(rom)
            /\ headless = no_headless
            /\ asm = no_asm

\* the host runs one cycle; it stops at the first error
ExecuteCycle ==
    /\ result = "Ok"
    /\ cycles < MaxCycles
    /\ \E random_byte \in (IF ~pc_out_of_bounds(State) /\ fetch_opcode(State) \div 4096 = 12
                           THEN RandomSamples ELSE {0}) :
          LET r == execute_cycle(State, quirks, random_byte)
          IN  /\ Install(r.state)
              /\ result' = r.result
              /\ run' = fresh_run(r.state)
              /\ hist' = IF pc_out_of_bounds(State) THEN hist
                         ELSE record_call(hist, fetch_opcode(State), pc, r.result)
    /\ cycles' = cycles + 1
    /\ UNCHANGED << quirks, rom_path, headless, asm, host >>

\* the host's 60 Hz tick, with or without a beep callback
TickTimers ==
    /\ result = "Ok"
    /\ run.n < MaxTicks
    /\ \E has_callback \in BOOLEAN :
          LET r == tick_timers(State, has_callback)
          IN  /\ Install(r.state)
              /\ run' = [run EXCEPT !.n = @ + 1, !.beeps = @ + r.beeps,
                                    !.cb = @ /\ has_callback]
    /\ UNCHANGED << quirks, result, cycles, hist, rom_path, headless, asm, host >>

\* the host polls its keyboard
SetKeyState ==
    /\ result = "Ok"
    /\ \E key_index \in KeySamples, is_pressed \in BOOLEAN :
          Install(set_key_state(State, key_index, is_pressed))
    /\ UNCHANGED << quirks, result, cycles, run, hist, rom_path, headless, asm, host >>

\* the interactive host has drawn a frame (app.rs: state.should_draw = false)
PresentFrame ==
    /\ result = "Ok"
    /\ should_draw
    /\ Install([State EXCEPT !.should_draw = FALSE])
    /\ UNCHANGED << quirks, result, cycles, run, hist, rom_path, headless, asm, host >>

Next == ExecuteCycle \/ TickTimers \/ SetKeyState \/ PresentFrame

Spec == Init /\ [][Next]_vars

\* -------------------------------------------------- one opcode at a time
\* The compliance tests' harness: create_state(None), registers set by hand,
\* then one execute_opcode call.
ByteSamples == {0, 1, \H20, \H80, \HFF}

RegisterSamples == {0, 1, 15}

\* 8XY4, 8XY5, 8XY6, 8XY7, 8XYE over the sampled registers, and BNNN with
\* x = 0, 1, F and targets on both sides of 0xFFF
TestOpcodes ==
    { \H8000 + 256 * x + 16 * y + n :
        x \in RegisterSamples, y \in RegisterSamples, n \in {4, 5, 6, 7, 14} }
    \cup { \HB000, \HB0FF, \HB123, \HBFFF }

InitOp ==
    \E q \in QuirkProfiles, v0 \in ByteSamples, v1 \in ByteSamples, vf \in ByteSamples :
        LET created == create_state(FALSE, << >>)
            poked == [created.state EXCEPT !.registers[0] = v0,
                                           !.registers[1] = v1,
                                           !.registers[15] = vf]
        IN  /\ Holds(poked)
            /\ quirks = q
            /\ result = created.result
            /\ cycles = 0
            /\ run = fresh_run(poked)
            /\ hist = no_calls
            /\ host = no_host
            /\ rom_path = no_rom_path
            /\ headless = no_headless
            /\ asm = no_asm

ExecuteOpcode ==
    /\ result = "Ok"
    /\ cycles = 0
    /\ \E opcode \in TestOpcodes :
          LET r == execute_opcode(State, opcode, quirks, 0)
          IN  /\ Install(r.state)
              /\ result' = r.result
              /\ run' = fresh_run(r.state)
              /\ hist' = record_call(hist, opcode, pc, r.result)
    /\ cycles' = cycles + 1
    /\ UNCHANGED << quirks, rom_path, headless, asm, host >>

NextOp == ExecuteOpcode

SpecOp == InitOp /\ [][NextOp]_vars

\* ------------------------------------------------------- sprites in a row
\* The drawing tests' harness: create_state(None), V0, V1, I and a sprite
\* byte set by hand, then DXYN calls through execute_opcode. The sprites are
\* the font glyphs at I = 0 and the byte C0 in the last cell of memory.
DrawXSamples == {61, 66}

DrawYSamples == {31, 33}

DrawIndexSamples == {0, MEMORY_SIZE - 1}

\* heights 0, 2, 5, 15 at (V0, V1), and a glyph at (V1, V0)
DrawOpcodes == { \HD010, \HD012, \HD015, \HD01F, \HD105 }

InitDraw ==
    \E q \in QuirkProfiles, vx \in DrawXSamples, vy \in DrawYSamples,
       i \in DrawIndexSamples :
        LET created == create_state(FALSE, << >>)
            poked == [created.state EXCEPT !.registers[0] = vx,
                                           !.registers[1] = vy,
                                           !.index = i,
                                           !.memory[MEMORY_SIZE - 1] = \HC0]
        IN  /\ Holds(poked)
            /\ quirks = q
            /\ result = created.result
            /\ cycles = 0
            /\ run = fresh_run(poked)
            /\ hist = no_calls
            /\ host = no_host
            /\ rom_path = no_rom_path
            /\ headless = no_headless
            /\ asm = no_asm

DrawSprite ==
    /\ result = "Ok"
    /\ cycles < MaxDraws
    /\ \E opcode \in DrawOpcodes :
          LET r == execute_opcode(State, opcode, quirks, 0)
          IN  /\ Install(r.state)
              /\ result' = r.result
              /\ run' = fresh_run(r.state)
              /\ hist' = record_call(hist, opcode, pc, r.result)
    /\ cycles' = cycles + 1
    /\ UNCHANGED << quirks, rom_path, headless, asm, host >>

NextDraw == DrawSprite

SpecDraw == InitDraw /\ [][NextDraw]_vars

\* ------------------------------------------------------ waiting for a key
\* A host that never stops: it polls the keyboard, runs cycles and ticks the
\* timers for as long as the program runs. The program sets the delay timer,
\* waits for a key with FX0A at 0x204, and jumps back to wait again.
WaitRom == rom_image(<< \H6003, \HF015, \HF00A, \H1204 >>, << >>)

InitWait ==
    \E q \in QuirkProfiles :
        LET created == create_state(TRUE, WaitRom)
        IN  /\ Holds(created.state)
            /\ quirks = q
            /\ result = created.result
            /\ cycles = 0
            /\ run = fresh_run(created.state)
            /\ hist = no_calls
            /\ host = no_host
            /\ rom_path = some_rom_path(WaitRom)
            /\ headless = no_headless
            /\ asm = no_asm

\* one more execute_cycle call of the host loop; the loop has no last cycle
PollCycle ==
    /\ result = "Ok"
    /\ LET r == execute_cycle(State, quirks, 0)
       IN  /\ Install(r.state)
           /\ result' = r.result
           /\ run' = fresh_run(r.state)
           /\ hist' = IF pc_out_of_bounds(State) THEN hist
                      ELSE record_call(hist, fetch_opcode(State), pc, r.result)
    /\ UNCHANGED << quirks, cycles, rom_path, headless, asm, host >>

NextWait == PollCycle \/ TickTimers \/ SetKeyState \/ PresentFrame

\* the host keeps calling execute_cycle
SpecWait == InitWait /\ [][NextWait]_vars /\ WF_vars(PollCycle)

\* ------------------------------------------------------------ resetting
\* A host that resets the machine it is running: reset_state with a new ROM
\* path, or with None, which loads the file of the stored path again.
\* a program that leaves its mark on registers, timer, I, memory, screen and stack
DirtyRom == words_to_bytes(<< \H61FF, \HF115, \HA300, \HF133, \HD115, \H220C >>)

\* a file one byte longer than the program area
OversizeRom == [i \in 1..(MEMORY_SIZE - PROGRAM_START + 1) |-> 1]

ResetRoms ==
    { << >>,
      words_to_bytes(<< \H00FD, \H1200 >>),
      DirtyRom,
      rom_image(<< \H00E0 >>, << \H1200 >>),
      OversizeRom }

\* the rom_path arguments create_state and reset_state are called with
ResetPaths == {no_rom_path} \cup {some_rom_path(rom) : rom \in ResetRoms}

\* reset_state and the exit opcode read no quirk: one profile runs the programs
InitReset ==
    \E path \in ResetPaths, q \in {MODERN_QUIRKS} :
        LET created == create_state(path.some, path.bytes)
        IN  /\ Holds(created.state)
            /\ quirks = q
            /\ result = created.result
            /\ cycles = 0
            /\ run = fresh_run(created.state)
            /\ hist = no_calls
            /\ host = no_host
            /\ rom_path = path
            /\ headless = no_headless
            /\ asm = no_asm

\* every group of fields reset_state writes holds something a program left there
used_machine(state) ==
    /\ \E a \in (PROGRAM_START + 256)..(PROGRAM_START + 258) : state.memory[a] # 0
    /\ \E r \in DOMAIN state.registers : state.registers[r] # 0
    /\ \E i \in DOMAIN state.screen_buffer : state.screen_buffer[i] # 0
    /\ state.stack # << >>
    /\ state.index # 0
    /\ state.delay_timer # 0
    /\ state.pc # PROGRAM_START

\* reset_state(&mut state, given): the path given replaces the stored one;
\* the host resets a machine whose run is over (cycle budget used or an error)
ResetState ==
    /\ hist.resets < MaxResets
    /\ cycles = MaxCycles \/ result # "Ok"
    /\ \E given \in ResetPaths :
          LET path == IF given.some THEN given ELSE rom_path
          IN  \E r \in {reset_state(State, path.some, path.bytes)} :
                  /\ Install(r.state)
                  /\ result' = r.result
                  /\ run' = fresh_run(r.state)
                  /\ rom_path' = path
    /\ hist' = [no_calls EXCEPT !.resets = hist.resets + 1, !.over = used_machine(State)]
    /\ UNCHANGED << quirks, cycles, headless, asm, host >>

NextReset == ExecuteCycle \/ TickTimers \/ SetKeyState \/ ResetState

SpecReset == InitReset /\ [][NextReset]_vars

\* ------------------------------------------------- run_emulator_headless
\* programs given to the headless driver: exit at once, exit after setting the
\* timers, never exit, fail on the second cycle
HeadlessRoms ==
    { words_to_bytes(<< \H00FD, \H1202 >>),
      words_to_bytes(<< \H6003, \HF015, \HF018, \H00FD, \H1208 >>),
      words_to_bytes(<< \H6003, \HF015, \H1204 >>),
      words_to_bytes(<< \H6001, \H8008 >>) }

\* cpu_hz arguments: rejected, below one cycle per tick, a tick per cycle, a
\* tick every second, every third and every eleventh cycle
HeadlessClocks == {0, 30, 60, 120, 180, 700}

\* mutant: a tick after every cycle, whatever the clock
cycles_per_timer_tick_every_cycle(cpu_hz) == 1

\* usize::max(1, cpu_hz / 60)
cycles_per_timer_tick(cpu_hz) == IF cpu_hz \div 60 > 1 THEN cpu_hz \div 60 ELSE 1

\* mutant: the loop does not look at exited
headless_continues_past_exit(state, i, max_cycles) == i < max_cycles

\* for i in 0..max_cycles { if state.exited { break; } ...
headless_continues(state, i, max_cycles) == i < max_cycles /\ ~state.exited

\* the argument checks and create_state(Some(rom_path))
InitHeadless ==
    \E rom \in HeadlessRoms, q \in QuirkProfiles,
       max_cycles \in 0..MaxHeadlessCycles, cpu_hz \in HeadlessClocks :
        LET rejected == max_cycles = 0 \/ cpu_hz = 0
            created == create_state(TRUE, rom)
        IN  /\ Holds(IF rejected THEN EmulatorState_default ELSE created.state)
            /\ quirks = q
            /\ result = IF rejected THEN "InvalidArgument" ELSE created.result
            /\ cycles = 0
            /\ run = fresh_run(EmulatorState_default)
            /\ hist = no_calls
            /\ host = no_host
            /\ rom_path = some_rom_path(rom)
            /\ headless = [max_cycles |-> max_cycles, cpu_hz |-> cpu_hz, i |-> 0,
                           phase |-> IF rejected \/ created.result # "Ok"
                                     THEN "failed" ELSE "loop",
                           ticks |-> 0]
            /\ asm = no_asm

\* one pass of the loop body up to the timer test: execute_cycle(&mut state, quirks)?
HeadlessCycle ==
    /\ headless.phase = "loop"
    /\ headless_continues(State, headless.i, headless.max_cycles)
    /\ \E random_byte \in (IF ~pc_out_of_bounds(State) /\ fetch_opcode(State) \div 4096 = 12
                           THEN RandomSamples ELSE {0}) :
          LET r == execute_cycle(State, quirks, random_byte)
              tick_due == ((headless.i + 1) % cycles_per_timer_tick(headless.cpu_hz)) = 0
          IN  /\ Install(r.state)
              /\ result' = r.result
              /\ headless' = IF r.result # "Ok" THEN [headless EXCEPT !.phase = "failed"]
                              ELSE IF tick_due THEN [headless EXCEPT !.phase = "tick"]
                              ELSE [headless EXCEPT !.i = @ + 1]
    /\ cycles' = cycles + 1
    /\ UNCHANGED << quirks, run, hist, rom_path, asm, host >>

\* tick_timers(&mut state, None), then the next i
HeadlessTick ==
    /\ headless.phase = "tick"
    /\ Install(tick_timers(State, FALSE).state)
    /\ headless' = [headless EXCEPT !.phase = "loop", !.i = @ + 1, !.ticks = @ + 1]
    /\ UNCHANGED << quirks, result, cycles, run, hist, rom_path, asm, host >>

\* the loop is over: Ok(state)
HeadlessReturn ==
    /\ headless.phase = "loop"
    /\ ~headless_continues(State, headless.i, headless.max_cycles)
    /\ headless' = [headless EXCEPT !.phase = "returned"]
    /\ UNCHANGED << machine, quirks, result, cycles, run, hist, rom_path, asm, host >>

NextHeadless == HeadlessCycle \/ HeadlessTick \/ HeadlessReturn

\* the driver is sequential code: its next statement always runs
SpecHeadless == InitHeadless /\ [][NextHeadless]_vars /\ WF_vars(NextHeadless)

\* ------------------------------------------------------- assemble_text
\* the lines sources are made of: labels alone, a jump forward, data after a
\* label, ORG forward / to a negative literal / below the origin, an unknown
\* mnemonic (an error of pass 2), a DB without arguments (an error of pass 1),
\* words, and a label written twice on one line
LinePool ==
    LET start == << "s", "t" >>
        end == << "e", "n", "d" >>
    IN  { source_line(<< start >>, "", << >>),
          source_line(<< start >>, "JP", << end >>),
          source_line(<< end >>, "DB", << << "0", "x", "1", "2" >>, << "\"", "B", "C", "\"" >> >>),
          source_line(<< >>, "ORG", << << "0", "x", "2", "0", "4" >> >>),
          source_line(<< >>, "ORG", << << "-", "1" >> >>),
          source_line(<< >>, "ORG", << << "$", "1", "F", "F" >> >>),
          source_line(<< >>, "FOO", << >>),
          source_line(<< >>, "DB", << >>),
          source_line(<< >>, "DW", << << "0", "x", "A", "B", "C", "D" >>, start >>),
          source_line(<< end, end >>, "CLS", << >>) }

\* sources with the other cases: a blank line, char and decimal literals, a
\* byte and a word out of range, an invalid label, an ORG that pads, an ORG
\* that moves backwards after data, a label that only a later line defines,
\* a label defined again on a line that also has an invalid label
CuratedSources ==
    LET blank == source_line(<< >>, "", << >>)
        org_200 == source_line(<< >>, "ORG", << << "0", "x", "2", "0", "0" >> >>)
        org_206 == source_line(<< >>, "ORG", << << "0", "x", "2", "0", "6" >> >>)
        sprite == << "s", "p", "r", "i", "t", "e" >>
        v1 == << "V", "1" >>
    IN  { << blank, org_200,
             source_line(<< >>, "DB", << << "0", "x", "1", "2" >>, << "3", "4" >>,
                                         << "'", "A", "'" >> >>),
             source_line(<< >>, "DB", << << "\"", "B", "C", "\"" >> >>),
             source_line(<< >>, "DW", << << "0", "x", "A", "B", "C", "D" >> >>) >>,
          << blank, org_200,
             source_line(<< >>, "JP", << << "0", "x", "2", "0", "6" >> >>),
             org_206,
             source_line(<< >>, "RET", << >>) >>,
          << source_line(<< >>, "LD", << << "I" >>, sprite >>),
             source_line(<< >>, "LD", << v1, << "D", "T" >> >>),
             source_line(<< >>, "LD", << << "[", "I", "]" >>, v1 >>),
             source_line(<< >>, "DRW", << v1, << "V", "2" >>, << "5" >> >>),
             source_line(<< sprite >>, "DB", << << "0", "x", "F", "F" >> >>) >>,
          << source_line(<< >>, "DB", << << "2", "5", "6" >> >>) >>,
          << source_line(<< >>, "DB", << << "-", "1" >> >>) >>,
          << source_line(<< >>, "DW", << << "0", "x", "1", "0", "0", "0", "0" >> >>) >>,
          << source_line(<< << "9", "x" >> >>, "CLS", << >>) >>,
          << source_line(<< >>, "DB", << << "'", "'" >> >>) >>,
          << source_line(<< >>, "DW", << << "1" >>, << "2" >>, << "3" >> >>),
             org_200 >>,
          << source_line(<< >>, "ORG", << << "0", "b", "1", "0" >>, << "1" >> >>) >>,
          << source_line(<< >>, "ORG", << sprite >>) >>,
          << source_line(<< sprite >>, "", << >>),
             source_line(<< sprite, << "9", "x" >> >>, "CLS", << >>) >> }

\* the sources given to assemble_text
Sources == CuratedSources \cup UNION { [1..n -> LinePool] : n \in 0..MaxLines }

\* the origin arguments: the usual 0x200, and one that is not a multiple of 4
Origins == {\H1FE, \H200}

\* assemble_text(source, origin) enters parse_source
InitAsm ==
    /\ Holds(EmulatorState_default)
    /\ quirks = ORIGINAL_QUIRKS
    /\ result = "Ok"
    /\ cycles = 0
    /\ run = fresh_run(EmulatorState_default)
    /\ hist = no_calls
    /\ host = no_host
    /\ rom_path = no_rom_path
    /\ headless = no_headless
    /\ \E source \in Sources, origin \in Origins :
          asm = [phase |-> "pass1", source |-> source, origin |-> origin,
                 line_no |-> 0, program_counter |-> origin, labels |-> << >>,
                 statements |-> << >>, pcs |-> << >>,
                 cursor |-> 0, current_address |-> origin, cursors |-> << >>,
                 emitted |-> << >>, output |-> << >>, error |-> no_error]

\* the state of pass 1 after statements.push(Statement { .. })
statement_pushed(line, line_no, kind, labels) ==
    [asm EXCEPT !.line_no = line_no,
                !.labels = labels,
                !.statements = Append(@, [line_no |-> line_no, kind |-> kind,
                                          operation |-> line.operation,
                                          arguments |-> line.arguments]),
                !.pcs = Append(@, asm.program_counter)]

\* one pass of the loop of parse_source over source.lines()
ParseLine ==
    /\ asm.phase = "pass1"
    /\ asm.line_no < Len(asm.source)
    /\ \E line_no \in {asm.line_no + 1} :
       \E line \in {asm.source[line_no]} :
       \E inserted \in {insert_labels(asm.labels, line.labels, asm.program_counter)},
          advanced \in {advance_program_counter(classify_operation(line.operation),
                                                line.arguments, asm.origin,
                                                asm.program_counter)} :
       \E pushed \in {statement_pushed(line, line_no, classify_operation(line.operation),
                                       inserted.labels)} :
           IF \E i \in DOMAIN line.labels : ~validate_label(line.labels[i])
           THEN asm' = [asm EXCEPT !.phase = "failed", !.line_no = line_no,
                                   !.error = error_at("invalid label", line_no)]
           ELSE IF ~inserted.ok
           THEN asm' = [asm EXCEPT !.phase = "failed", !.line_no = line_no,
                                   !.labels = inserted.labels,
                                   !.error = error_at("duplicate label", line_no)]
           ELSE IF line.operation = ""
           THEN asm' = [asm EXCEPT !.line_no = line_no, !.labels = inserted.labels]
           ELSE IF ~advanced.ok
           THEN asm' = [pushed EXCEPT !.phase = "failed",
                                      !.error = error_at(advanced.error, line_no)]
           ELSE IF advanced.value >= USIZE_MODULUS
           THEN \* program_counter += n overflows: a panic when the build checks
                \* overflow, a wrap when it does not
                \E overflow_checks \in BOOLEAN :
                    asm' = IF overflow_checks
                           THEN [pushed EXCEPT !.phase = "panicked"]
                           ELSE [pushed EXCEPT !.program_counter =
                                                   advanced.value % USIZE_MODULUS]
           ELSE asm' = [pushed EXCEPT !.program_counter = advanced.value]
    /\ UNCHANGED << machine, quirks, result, cycles, run, hist, rom_path, headless, host >>

\* parse_source returns Ok((statements, labels)); encode_statements starts
ParseSourceReturns ==
    /\ asm.phase = "pass1"
    /\ asm.line_no = Len(asm.source)
    /\ asm' = [asm EXCEPT !.phase = "pass2"]
    /\ UNCHANGED << machine, quirks, result, cycles, run, hist, rom_path, headless, host >>

\* one pass of the loop of encode_statements
EncodeStatement ==
    /\ asm.phase = "pass2"
    /\ asm.cursor < Len(asm.statements)
    /\ \E statement \in {asm.statements[asm.cursor + 1]} :
       \E encoded \in {encode_statement(statement, asm.labels, asm.current_address)} :
           asm' = IF encoded.error = "capacity overflow"
                  THEN [asm EXCEPT !.phase = "panicked"]
                  ELSE IF ~encoded.ok
                  THEN [asm EXCEPT !.phase = "failed",
                                   !.error = error_at(encoded.error, statement.line_no)]
                  ELSE [asm EXCEPT !.cursor = @ + 1,
                                   !.cursors = Append(@, asm.current_address),
                                   !.emitted = Append(@, Len(asm.output)),
                                   !.output = @ \o encoded.bytes,
                                   !.current_address = @ + Len(encoded.bytes)]
    /\ UNCHANGED << machine, quirks, result, cycles, run, hist, rom_path, headless, host >>

\* encode_statements returns Ok(output)
EncodeStatementsReturns ==
    /\ asm.phase = "pass2"
    /\ asm.cursor = Len(asm.statements)
    /\ asm' = [asm EXCEPT !.phase = "done"]
    /\ UNCHANGED << machine, quirks, result, cycles, run, hist, rom_path, headless, host >>

NextAsm == ParseLine \/ ParseSourceReturns \/ EncodeStatement \/ EncodeStatementsReturns

SpecAsm == InitAsm /\ [][NextAsm]_vars

\* ------------------------------------------------- encode_instruction
\* the mnemonic forms handed to encode_instruction: a mnemonic and the kinds
\* of its operands (x, y: registers; addr, byte, nibble: a literal; the other
\* kinds are the token itself); SYS and NOP are not mnemonics of the encoder
EncodeForms ==
    LET form(mnemonic, operands) == [mnemonic |-> mnemonic, operands |-> operands]
    IN  { form("CLS", << >>), form("RET", << >>), form("EXIT", << >>),
          form("JP", << "addr" >>), form("JP", << "x", "byte" >>),
          form("CALL", << "addr" >>),
          form("SE", << "x", "byte" >>), form("SE", << "x", "y" >>),
          form("SNE", << "x", "byte" >>), form("SNE", << "x", "y" >>),
          form("LD", << "x", "byte" >>), form("LD", << "x", "y" >>),
          form("LD", << "x", "DT" >>), form("LD", << "x", "K" >>),
          form("LD", << "x", "[I]" >>), form("LD", << "I", "addr" >>),
          form("LD", << "DT", "x" >>), form("LD", << "ST", "x" >>),
          form("LD", << "F", "x" >>), form("LD", << "B", "x" >>),
          form("LD", << "[I]", "x" >>),
          form("ADD", << "x", "byte" >>), form("ADD", << "x", "y" >>),
          form("ADD", << "I", "x" >>),
          form("OR", << "x", "y" >>), form("AND", << "x", "y" >>),
          form("XOR", << "x", "y" >>), form("SUB", << "x", "y" >>),
          form("SUBN", << "x", "y" >>),
          form("SHR", << "x" >>), form("SHR", << "x", "y" >>),
          form("SHL", << "x" >>), form("SHL", << "x", "y" >>),
          form("RND", << "x", "byte" >>), form("DRW", << "x", "y", "nibble" >>),
          form("SKP", << "x" >>), form("SKNP", << "x" >>),
          form("SYS", << "addr" >>), form("NOP", << >>) }

\* register numbers written after the V: 0..15 are registers, 16 is not
EncodeXRegisters == 0..16

EncodeYRegisters == {0, 9, 15, 16}

\* literal operands: the ends of the nibble, byte and address ranges, the
\* first value past each, a negative number, and the 1 of "LD V16, 1"
EncodeValues == {-1, 0, 1, \H0F, \H10, \HFF, \H100, \H0FFF, \H1000}

HexChars == DigitChars \o SubSeq(UpperCase, 1, 6)

\* the digits of a number >= 0 in the radix, most significant first
RECURSIVE digits_of(_, _)
digits_of(number, radix) ==
    IF number < radix THEN << HexChars[number + 1] >>
    ELSE Append(digits_of(number \div radix, radix), HexChars[(number % radix) + 1])

\* a register operand: V and one hex digit, or V and the decimal number
register_token(reg, decimal) ==
    << "V" >> \o (IF decimal \/ reg > 15 THEN digits_of(reg, 10) ELSE digits_of(reg, 16))

\* a literal operand: decimal, or hex after 0x
literal_token(value, hex) ==
    IF value < 0 THEN << "-" >> \o digits_of(-value, 10)
    ELSE IF hex THEN << "0", "x" >> \o digits_of(value, 16)
    ELSE digits_of(value, 10)

operand_token(kind, x_reg, y_reg, value, plain) ==
    CASE kind = "x" -> register_token(x_reg, plain)
      [] kind = "y" -> register_token(y_reg, ~plain)
      [] kind \in {"addr", "byte", "nibble"} -> literal_token(value, ~plain)
      [] kind = "DT" -> << "D", "T" >>
      [] kind = "ST" -> << "S", "T" >>
      [] kind = "K" -> << "K" >>
      [] kind = "[I]" -> << "[", "I", "]" >>
      [] kind = "I" -> IF plain THEN << "I" >> ELSE << "i" >>
      [] OTHER -> << kind >>

\* arity -1 drops the last argument, 1 adds one
form_arguments(form, x_reg, y_reg, value, plain, arity) ==
    LET written == [i \in DOMAIN form.operands |->
                       operand_token(form.operands[i], x_reg, y_reg, value, plain)]
    IN  IF arity < 0 /\ written # << >> THEN SubSeq(written, 1, Len(written) - 1)
        ELSE IF arity > 0 THEN Append(written, << "1" >>)
        ELSE written

form_uses(form, kinds) == \E i \in DOMAIN form.operands : form.operands[i] \in kinds

\* a call encode_instruction(mnemonic, arguments, labels, line_no) about to be made
InitEncode ==
    /\ Holds(EmulatorState_default)
    /\ quirks = ORIGINAL_QUIRKS
    /\ result = "Ok"
    /\ cycles = 0
    /\ run = fresh_run(EmulatorState_default)
    /\ hist = no_calls
    /\ host = no_host
    /\ rom_path = no_rom_path
    /\ headless = no_headless
    /\ \E form \in EncodeForms, plain \in BOOLEAN, arity \in {-1, 0, 1} :
       \E x_reg \in (IF form_uses(form, {"x"}) /\ arity = 0 THEN EncodeXRegisters ELSE {1}),
          y_reg \in (IF form_uses(form, {"y"}) /\ arity = 0 THEN EncodeYRegisters ELSE {2}),
          value \in (IF form_uses(form, {"addr", "byte", "nibble"}) /\ arity = 0
                     THEN EncodeValues ELSE {1}) :
            asm = [phase |-> "encode", form |-> form, x_reg |-> x_reg, y_reg |-> y_reg,
                   value |-> value, arity |-> arity,
                   mnemonic |-> form.mnemonic,
                   arguments |-> form_arguments(form, x_reg, y_reg, value, plain, arity),
                   opcode |-> asm_err("")]

\* encode_instruction(&statement.operation, &statement.arguments, labels, line_no)
EncodeInstruction ==
    /\ asm.phase = "encode"
    /\ asm' = [asm EXCEPT !.phase = "encoded",
                          !.opcode = encode_instruction(asm.mnemonic, asm.arguments, << >>)]
    /\ UNCHANGED << machine, quirks, result, cycles, run, hist, rom_path, headless, host >>

NextEncode == EncodeInstruction

SpecEncode == InitEncode /\ [][NextEncode]_vars

\* ------------------------------------------- the encoder's opcodes executed
\* execute_opcode(&mut state, opcode, quirks) on a machine just created, for
\* the opcode encode_instruction returned
ExecuteEncoded ==
    /\ asm.phase = "encoded"
    /\ asm.opcode.ok
    /\ \E q \in QuirkProfiles, created \in {create_state(FALSE, << >>)} :
       \E r \in {execute_opcode(created.state, asm.opcode.value, q, 0)} :
          /\ Install(r.state)
          /\ result' = r.result
          /\ quirks' = q
    /\ cycles' = cycles + 1
    /\ asm' = [asm EXCEPT !.phase = "executed"]
    /\ UNCHANGED << run, hist, rom_path, headless, host >>

NextAssembled == EncodeInstruction \/ ExecuteEncoded

SpecAssembled == InitEncode /\ [][NextAssembled]_vars


\* ---------------------------------------------------- one cycle at a time
\* The compliance tests' harness carried through the fetch: create_state(None),
\* then the registers named by the opcode, VF, I, one key, pc and the two
\* bytes at pc set by hand, and one execute_cycle call. A case names the
\* opcode, the values of Vx, Vy and VF, I, the key held down (-1: none), pc and
\* the quirks profile.
StepCase(opcodes, vxs, vys, vfs, indexes, held_keys, pcs, profiles) ==
    [opcode : opcodes, vx : vxs, vy : vys, vf : vfs, index : indexes,
     key : held_keys, pc : pcs, quirks : profiles]

StepCases ==
    \* FX33 for every value of Vx, with I at both ends of memory and on the
    \* instruction itself
    StepCase({\HF033, \HFF33}, Byte, {7}, {9}, {0, \H200, \HFFD}, {-1},
             {PROGRAM_START}, QuirkProfiles)
    \* the six skips, taken and not taken, in the middle and at the end of
    \* memory
    \cup StepCase({ f * 4096 + x * 256 + kk : f \in {3, 4}, x \in RegisterSamples,
                                               kk \in {0, \H80, \HFF} },
                  ByteSamples, {7}, {9}, {0}, {-1}, {PROGRAM_START}, QuirkProfiles)
    \cup StepCase({ f * 4096 + x * 256 + y * 16 : f \in {5, 9}, x \in RegisterSamples,
                                                  y \in RegisterSamples },
                  {0, \H80, \HFF}, {0, \H80, \HFF}, {9}, {0}, {-1},
                  {PROGRAM_START}, QuirkProfiles)
    \cup StepCase({ \HE000 + x * 256 + kk : x \in RegisterSamples, kk \in {\H9E, \HA1} },
                  {0, \H0A, \H1A, \HFA, \HFF}, {7}, {9}, {0}, {-1, 0, 10, 15},
                  {PROGRAM_START, \HFFC}, QuirkProfiles)
    \* a program counter with no two bytes left to fetch, and the last one
    \* that has
    \cup StepCase({\H00E0, \H6A55, \H1200}, {1}, {7}, {9}, {\H300}, {-1},
                  {\HFFE, \HFFF, \H1000, \H1002}, QuirkProfiles)
    \* 7XKK, 8XY1, 8XY2, 8XY3 and FX1E with sums that fit and sums that
    \* overflow
    \cup StepCase({ \H7000 + x * 256 + kk : x \in {0, 14, 15}, kk \in {0, 1, \HFF} }
                  \cup { \H8000 + x * 256 + y * 16 + n : x \in {0, 14, 15},
                                                         y \in RegisterSamples, n \in 1..3 }
                  \cup { \HF01E, \HFE1E, \HFF1E },
                  {1, \H80, \HFF}, {\H0F, \HFF}, {0, 1}, {\HFFF}, {-1},
                  {PROGRAM_START}, QuirkProfiles)

\* the opcodes of the families 5, 8, 9, E and F that the decoder rejects:
\* every value of the nibble or byte the family is decoded by, over the
\* sampled registers
InvalidOpcodes ==
    { f * 4096 + x * 256 + y * 16 + n :
        f \in {5, 9}, x \in RegisterSamples, y \in {0, 15}, n \in 1..15 }
    \cup { \H8000 + x * 256 + y * 16 + n :
             x \in RegisterSamples, y \in {0, 15}, n \in {8, 9, 10, 11, 12, 13, 15} }
    \cup { \HE000 + x * 256 + kk : x \in {0, 15}, kk \in Byte \ {\H9E, \HA1} }
    \cup { \HF000 + x * 256 + kk :
             x \in {0, 15},
             kk \in Byte \ {\H07, \H0A, \H15, \H18, \H1E, \H29, \H33, \H55, \H65} }

\* the rejected opcodes under both profiles, and the whole family 0, whose
\* handler takes no quirks
DecodeCases ==
    StepCase(InvalidOpcodes, {\H1A}, {7}, {9}, {\H300}, {10}, {PROGRAM_START},
             QuirkProfiles)
    \cup StepCase(0..\H0FFF, {\H1A}, {7}, {9}, {\H300}, {10}, {PROGRAM_START},
                  {ORIGINAL_QUIRKS})

\* the state the harness sets by hand before the call
poked_state(state, c) ==
    LET x_reg == x_register_index(c.opcode)
        y_reg == y_register_index(c.opcode)
    IN  [state EXCEPT
           !.registers = [r \in 0..(REGISTER_COUNT - 1) |->
                             IF r = x_reg THEN c.vx
                             ELSE IF r = y_reg THEN c.vy
                             ELSE IF r = 15 THEN c.vf ELSE 0],
           !.key_inputs = [k \in 0..(KEY_COUNT - 1) |-> u8_from(k = c.key)],
           !.index = c.index,
           !.pc = c.pc,
           !.memory = IF c.pc + 1 < MEMORY_SIZE
                      THEN (c.pc :> (c.opcode \div 256))
                           @@ ((c.pc + 1) :> (c.opcode % 256)) @@ @
                      ELSE @]

InitCases(cases) ==
    /\ \E c \in cases, created \in {create_state(FALSE, << >>)} :
          /\ Holds(poked_state(created.state, c))
          /\ quirks = c.quirks
          /\ result = created.result
    /\ cycles = 0
    /\ run = fresh_run(EmulatorState_default)
    /\ hist = no_calls
    /\ host = no_host
    /\ rom_path = no_rom_path
    /\ headless = no_headless
    /\ asm = no_asm

InitStep == InitCases(StepCases)

InitDecode == InitCases(DecodeCases)

StepCycle ==
    /\ cycles = 0
    /\ \E r \in {execute_cycle(State, quirks, 0)} :
          /\ Install(r.state)
          /\ result' = r.result
    /\ cycles' = cycles + 1
    /\ UNCHANGED << quirks, run, hist, rom_path, headless, asm, host >>

NextStep == StepCycle

SpecStep == InitStep /\ [][NextStep]_vars

\* the same call over the opcodes the decoder ignores or rejects
SpecDecode == InitDecode /\ [][NextStep]_vars

\* ------------------------------------------------- the interactive host
\* run_emulator_app once its arguments have passed the checks and the window
\* is open. How many cycles and ticks a frame gets depends on the time the
\* frame took, so cycles, ticks, key polls and frames come in any order.
\* ROMs that draw: with no 00E0 at all, between two 00E0, after a 00E0 and
\* before a blocking FX0A, and after the only 00E0 of a program that then
\* spins on a jump.
HostRoms ==
    { rom_image(<< \HD011, \H1202 >>, << >>),
      rom_image(<< \H00E0, \HD011, \H1200 >>, << >>),
      rom_image(<< \H00E0, \HD011, \HF20A, \H1204 >>, << >>),
      rom_image(<< \H00E0, \HD011, \H1204 >>, << >>) }

\* front_buffer = state.screen_buffer
published(h, state) ==
    [h EXCEPT !.front_buffer = state.screen_buffer, !.unpublished = FALSE]

\* the look at the next opcode before the cycle: a 00E0 about to run
\* publishes the frame drawn since the last one
host_before_cycle(h, state) ==
    IF /\ state.pc <= (MEMORY_SIZE - 2)
       /\ fetch_opcode(state) = \H00E0
       /\ h.has_draw_since_clear
    THEN [published(h, state) EXCEPT !.has_draw_since_clear = FALSE]
    ELSE h

\* `if state.op == 0x00E0 { .. }`
host_after_clear(h, state) ==
    IF state.op = \H00E0
    THEN [h EXCEPT !.frame_in_progress_after_clear = TRUE,
                   !.has_draw_since_clear = FALSE]
    ELSE h

\* `if (state.op & 0xF000) == 0xD000 { .. }`
host_after_draw(h, state) ==
    IF state.op \div 4096 = 13
    THEN IF h.frame_in_progress_after_clear
         THEN [h EXCEPT !.has_draw_since_clear = TRUE, !.unpublished = TRUE]
         ELSE published(h, state)
    ELSE h

\* `if (state.op & 0xF0FF) == 0xF00A && state.pc == pc_before && has_draw_since_clear { .. }`
host_after_wait(h, state, pc_before) ==
    IF /\ state.op \div 4096 = 15
       /\ state.op % 256 = \H0A
       /\ state.pc = pc_before
       /\ h.has_draw_since_clear
    THEN [published(h, state) EXCEPT !.has_draw_since_clear = FALSE]
    ELSE h

InitHost ==
    /\ \E rom \in HostRoms :
       \E created \in {create_state(TRUE, rom)} :
          /\ Holds(created.state)
          /\ result = created.result
          /\ rom_path = some_rom_path(rom)
          /\ host = [front_buffer |-> created.state.screen_buffer,
                     frame_in_progress_after_clear |-> FALSE,
                     has_draw_since_clear |-> FALSE,
                     unpublished |-> FALSE]
    /\ quirks \in QuirkProfiles
    /\ cycles = 0
    /\ run = fresh_run(EmulatorState_default)
    /\ hist = no_calls
    /\ headless = no_headless
    /\ asm = no_asm

\* one pass of the inner loop: the look ahead, execute_cycle(&mut state, quirks)?
\* and the three tests on state.op
HostCycle ==
    /\ result = "Ok"
    /\ ~exited
    /\ \E before \in {host_before_cycle(host, State)},
          r \in {execute_cycle(State, quirks, 0)} :
          /\ Install(r.state)
          /\ result' = r.result
          /\ run' = fresh_run(r.state)
          /\ host' = IF r.result # "Ok" THEN before
                     ELSE host_after_wait(
                              host_after_draw(host_after_clear(before, r.state), r.state),
                              r.state, pc)
    /\ UNCHANGED << quirks, cycles, hist, rom_path, headless, asm >>

NextHost == HostCycle \/ TickTimers \/ SetKeyState \/ PresentFrame

\* the loop keeps running cycles
SpecHost == InitHost /\ [][NextHost]_vars /\ WF_vars(HostCycle)


\* ================================================================ claims
\* a step that is one execute_cycle / execute_opcode call
IsCycleStep == cycles' = cycles + 1

\* a step that is one tick_timers call
IsTickStep == run'.n = run.n + 1

Max0(v) == IF v > 0 THEN v ELSE 0

Min(a, b) == IF a < b THEN a ELSE b

\* ------------------------------------------------------------------- C1
\* C1 as stated: after every successful instruction pc is within [0, 4096).
C1_PcInsideMemory ==
    (cycles > 0 /\ result = "Ok") => pc \in 0..(MEMORY_SIZE - 1)

\* C1 (amended): pc never passes MEMORY_SIZE + 2. An instruction fetched at
\* 0xFFE leaves pc = 0x1000, a taken skip there 0x1002; pc stays in 0..4098
\* in every reachable state.
C1_PcWithinFetchReach == pc \in 0..(MEMORY_SIZE + 2)

\* a taken skip fetched at 0xFFE has completed
C1_Witness ==
    /\ cycles > 0
    /\ result = "Ok"
    /\ op \div 4096 = 3
    /\ pc = MEMORY_SIZE + 2

\* ------------------------------------------------------------------- C2
\* C2 as stated: pc is even after every successful instruction.
C2_PcEven == (cycles > 0 /\ result = "Ok") => pc % 2 = 0

\* pc and every return address on the stack are even
AllEven == pc % 2 = 0 /\ \A i \in DOMAIN stack : stack[i] % 2 = 0

\* the opcode is a jump whose target is odd: 1NNN / 2NNN with odd NNN, or
\* BNNN with an odd NNN + V[r]
OddJump(opcode, regs, q) ==
    \/ opcode \div 4096 \in {1, 2} /\ address_nnn(opcode) % 2 = 1
    \/ /\ opcode \div 4096 = 11
       /\ (address_nnn(opcode)
            + regs[IF q.jump_with_vx THEN x_register_index(opcode) ELSE 0]) % 2 = 1

\* C2 (amended): an instruction fetched while pc and the stacked return
\* addresses are even leaves them even, unless it is a jump to an odd target.
C2_ParityKept ==
    [][ (IsCycleStep /\ result' = "Ok" /\ AllEven /\ ~OddJump(op', registers, quirks))
            => AllEven' ]_vars

\* a 00EE has returned to an even address
C2_Witness ==
    /\ cycles > 1
    /\ result = "Ok"
    /\ op = \H00EE
    /\ AllEven

\* ------------------------------------------------------------------- C3
\* C3: index is in 0..=0x0FFF in every reachable state.
C3_IndexTwelveBits == index \in 0..\H0FFF

\* an FX1E whose sum passed 0xFFF has wrapped
C3_Witness ==
    /\ cycles > 0
    /\ result = "Ok"
    /\ op \div 4096 = 15 /\ byte_nn(op) = \H1E
    /\ registers[x_register_index(op)] > index

\* ------------------------------------------------------------------- C4
\* C4: every cell of screen_buffer is 0 or 1.
C4_PixelsAreBits == \A i \in DOMAIN screen_buffer : screen_buffer[i] \in {0, 1}

\* a DXYN has drawn over lit pixels: some were erased, some remain lit
C4_Witness ==
    /\ cycles > 0
    /\ result = "Ok"
    /\ op \div 4096 = 13
    /\ registers[15] = 1
    /\ \E i \in DOMAIN screen_buffer : screen_buffer[i] = 1

\* ------------------------------------------------------------------- C5
\* C5 as stated: execute_cycle leaves both timers as they were.
C5_CycleKeepsTimers ==
    [][ IsCycleStep => (delay_timer' = delay_timer /\ sound_timer' = sound_timer) ]_vars

\* C5 (amended): execute_cycle changes delay_timer only by FX15, which sets it
\* to Vx, and sound_timer only by FX18, which sets it to Vx; it never counts
\* a timer down.
C5_CycleOnlyLoadsTimers ==
    [][ IsCycleStep =>
          LET executed == ~pc_out_of_bounds(State)
              is_fx(kk) == executed /\ op' \div 4096 = 15 /\ byte_nn(op') = kk
              vx == registers[x_register_index(op')]
          IN  /\ delay_timer' = IF is_fx(\H15) THEN vx ELSE delay_timer
              /\ sound_timer' = IF is_fx(\H18) THEN vx ELSE sound_timer ]_vars

\* an FX18 has loaded the sound timer while the delay timer was running
C5_Witness ==
    /\ cycles > 0
    /\ result = "Ok"
    /\ run.n = 0
    /\ op \div 4096 = 15 /\ byte_nn(op) = \H18
    /\ sound_timer = registers[x_register_index(op)]
    /\ sound_timer > 0
    /\ delay_timer > 0

\* ------------------------------------------------------------------- C6
\* C6: a tick_timers call changes nothing but delay_timer and sound_timer.
C6_TickFrame ==
    [][ IsTickStep =>
          UNCHANGED << memory, registers, index, pc, stack, key_inputs,
                       screen_buffer, should_draw, exited, op >> ]_vars

\* ticks have counted both timers down after the host cleared should_draw
C6_Witness ==
    /\ run.n > 0
    /\ delay_timer < run.d0
    /\ sound_timer < run.s0
    /\ ~should_draw

\* ------------------------------------------------------------------- C7
\* C7: after n consecutive ticks from timers d and s, delay_timer is
\* max(0, d - n), sound_timer is max(0, s - n), and a callback supplied on
\* every tick has run min(n, s) times (never more when it was not always
\* supplied).
C7_TickRun ==
    /\ delay_timer = Max0(run.d0 - run.n)
    /\ sound_timer = Max0(run.s0 - run.n)
    /\ run.beeps <= Min(run.n, run.s0)
    /\ run.cb => run.beeps = Min(run.n, run.s0)

\* more ticks than either timer held: both saturated, the beeps stopped
C7_Witness ==
    /\ run.cb
    /\ run.s0 > 0
    /\ run.d0 > run.s0
    /\ run.n > run.d0
    /\ run.beeps = run.s0
    /\ delay_timer = 0

\* ------------------------------------------------------------------- C8
\* C8: no call aborts through an out-of-bounds access.
C8_NeverAborts == result # "panic"

\* ------------------------------------------------------------- C9 and C10
\* the flag 8XY4 / 8XY5 / 8XY6 / 8XY7 / 8XYE define, from the registers
\* held before the instruction
alu_flag(regs, opcode, q) ==
    LET vx == regs[x_register_index(opcode)]
        vy == regs[y_register_index(opcode)]
        shifted == IF q.shift_uses_vy THEN vy ELSE vx
    IN  CASE nibble_n(opcode) = 4 -> u8_from(vx + vy > 255)
          [] nibble_n(opcode) = 5 -> u8_from(vx >= vy)
          [] nibble_n(opcode) = 6 -> shifted % 2
          [] nibble_n(opcode) = 7 -> u8_from(vy >= vx)
          [] nibble_n(opcode) = 14 -> shifted \div 128

\* the result 8XY4 / 8XY5 / 8XY7 define, from the registers held before
alu_value(regs, opcode) ==
    LET vx == regs[x_register_index(opcode)]
        vy == regs[y_register_index(opcode)]
    IN  CASE nibble_n(opcode) = 4 -> (vx + vy) % 256
          [] nibble_n(opcode) = 5 -> (vx - vy) % 256
          [] nibble_n(opcode) = 7 -> (vy - vx) % 256

\* C9: with x = 0xF, VF holds the flag after 8XY4/5/6/7/E, not the result.
C9_FlagWrittenLast ==
    [][ ( /\ IsCycleStep
          /\ result' = "Ok"
          /\ op' \div 4096 = 8
          /\ nibble_n(op') \in {4, 5, 6, 7, 14}
          /\ x_register_index(op') = 15 )
            => registers'[15] = alu_flag(registers, op', quirks) ]_vars

\* C10: with x # 0xF, 8XY4/5/7 compute Vx and VF from the registers held
\* before the instruction, for every y.
C10_ArithmeticFromOldRegisters ==
    [][ ( /\ IsCycleStep
          /\ result' = "Ok"
          /\ op' \div 4096 = 8
          /\ nibble_n(op') \in {4, 5, 7}
          /\ x_register_index(op') # 15 )
            => /\ registers'[x_register_index(op')] = alu_value(registers, op')
               /\ registers'[15] = alu_flag(registers, op', quirks) ]_vars

\* ------------------------------------------------------------------ C11
\* the register 8XY6 / 8XYE shift, as the profile names it
shifted_register(opcode, q) ==
    IF q.shift_uses_vy THEN y_register_index(opcode) ELSE x_register_index(opcode)

\* C11: for 8XY6 / 8XYE with x # 0xF, S is Vy under shift_uses_vy and Vx
\* otherwise, both read before the instruction; afterwards Vx = S >> 1
\* (resp. (S << 1) mod 256), VF = bit 0 (resp. bit 7) of S, and Vy is
\* unchanged whenever y is neither x nor 0xF.
C11_ShiftSource ==
    [][ ( /\ IsCycleStep
          /\ op' \div 4096 = 8
          /\ nibble_n(op') \in {6, 14}
          /\ x_register_index(op') # 15 )
            => LET x == x_register_index(op')
                   y == y_register_index(op')
                   S == registers[shifted_register(op', quirks)]
               IN  /\ result' = "Ok"
                   /\ registers'[x] = IF nibble_n(op') = 6 THEN S \div 2 ELSE (S * 2) % 256
                   /\ registers'[15] = IF nibble_n(op') = 6 THEN S % 2 ELSE S \div 128
                   /\ (y # x /\ y # 15) => registers'[y] = registers[y] ]_vars

\* 8016 under shift_uses_vy has shifted V1 = 0xFF into V0 and left V1 alone
C11_Witness ==
    /\ cycles = 1
    /\ op = \H8016
    /\ quirks.shift_uses_vy
    /\ registers[1] = \HFF
    /\ registers[0] = \H7F
    /\ registers[15] = 1

\* ------------------------------------------------------------------ C12
\* a step that is one execute_cycle call which fetched and ran an opcode
\* (op' is that opcode)
CycleRuns == IsCycleStep /\ ~pc_out_of_bounds(State)

\* what FX55 / FX65 with register x leave behind, from the state before
LoadStoreEffect(x) ==
    /\ result' = "Ok"
    /\ index + x < MEMORY_SIZE
    /\ IF byte_nn(op') = \H65
       THEN /\ registers' = [r \in 0..(REGISTER_COUNT - 1) |->
                                IF r <= x THEN memory[index + r] ELSE registers[r]]
            /\ memory' = memory
       ELSE /\ memory' = [a \in 0..(MEMORY_SIZE - 1) |->
                             IF a >= index /\ a <= index + x
                             THEN registers[a - index] ELSE memory[a]]
            /\ registers' = registers
    /\ index' = IF quirks.load_store_increment_i
                THEN BitAnd(index + x + 1, \H0FFF) ELSE index

\* C12: FX65 loads V0..Vx from memory[I..=I+x] and FX55 stores V0..Vx there,
\* touching no other register or memory cell; afterwards I is
\* (I + x + 1) & 0x0FFF under load_store_increment_i and unchanged otherwise.
C12_LoadStore ==
    [][ ( /\ CycleRuns
          /\ op' \div 4096 = 15
          /\ byte_nn(op') \in {\H55, \H65} )
            => LoadStoreEffect(x_register_index(op')) ]_vars

\* the same for the instructions that complete
C12_LoadStoreCompleted ==
    [][ ( /\ CycleRuns
          /\ op' \div 4096 = 15
          /\ byte_nn(op') \in {\H55, \H65}
          /\ result' = "Ok" )
            => LoadStoreEffect(x_register_index(op')) ]_vars

\* ------------------------------------------------------------------ C13
\* C13: BNNN sets pc = (NNN + V[r]) & 0x0FFF, where r is the opcode's high
\* register nibble under jump_with_vx and 0 otherwise.
C13_JumpWithOffset ==
    [][ (IsCycleStep /\ op' \div 4096 = 11)
            => LET r == IF quirks.jump_with_vx THEN (op' \div 256) % 16 ELSE 0
               IN  /\ result' = "Ok"
                   /\ pc' = ((op' % 4096) + registers[r]) % 4096 ]_vars

\* BFFF under jump_with_vx has added VF = 0xFF and wrapped past 0xFFF
C13_Witness ==
    /\ cycles = 1
    /\ op = \HBFFF
    /\ quirks.jump_with_vx
    /\ registers[15] = \HFF
    /\ registers[0] = 1
    /\ pc = \H0FE

\* ------------------------------------------------------------------ C14
Cells == 0..(SCREEN_WIDTH * SCREEN_HEIGHT - 1)

\* where DXYN starts, from the registers held before the instruction
StartColumn == registers[x_register_index(op')] % SCREEN_WIDTH

StartRow == registers[y_register_index(op')] % SCREEN_HEIGHT

\* sprite row r, bit b (bit 0 is the leftmost) lands on the screen
OnScreen(r, b) ==
    quirks.draw_wrap \/ (StartColumn + b < SCREEN_WIDTH /\ StartRow + r < SCREEN_HEIGHT)

\* the sprite bits of this DXYN that are set and land on the screen
SetBits ==
    { rb \in (0..(nibble_n(op') - 1)) \X (0..7) :
        /\ OnScreen(rb[1], rb[2])
        /\ (memory[index + rb[1]] \div (2 ^ (7 - rb[2]))) % 2 = 1 }

\* the cell sprite row r, bit b addresses
CellOf(r, b) ==
    ((StartColumn + b) % SCREEN_WIDTH) + SCREEN_WIDTH * ((StartRow + r) % SCREEN_HEIGHT)

Addressed == { CellOf(rb[1], rb[2]) : rb \in SetBits }

\* C14: after a successful DXYN every on-screen pixel addressed by a set
\* sprite bit has been toggled exactly once (no two set bits address the
\* same pixel) and no other pixel has changed, VF is 1 if at least one of
\* those pixels was 1 before the instruction and 0 otherwise, and
\* should_draw is true.
C14_SpriteToggles ==
    [][ (IsCycleStep /\ op' \div 4096 = 13 /\ result' = "Ok")
            => /\ Cardinality(Addressed) = Cardinality(SetBits)
               /\ screen_buffer' = [c \in Cells |->
                                       IF c \in Addressed THEN 1 - screen_buffer[c]
                                       ELSE screen_buffer[c]]
               /\ registers'[15] = IF \E c \in Addressed : screen_buffer[c] = 1
                                   THEN 1 ELSE 0
               /\ should_draw' ]_vars

\* a second sprite has been drawn over the first: it collided and still
\* left pixels lit
C14_Witness ==
    /\ cycles = 2
    /\ result = "Ok"
    /\ op \div 4096 = 13
    /\ registers[15] = 1
    /\ should_draw
    /\ \E c \in Cells : screen_buffer[c] = 1

\* ------------------------------------------------------------------ C15
Changed == { c \in Cells : screen_buffer'[c] # screen_buffer[c] }

\* C15: DXYN starts at (Vx mod 64, Vy mod 32). Under draw_wrap a set sprite
\* bit past the right or bottom edge is drawn at column mod 64 / row mod 32;
\* without draw_wrap it is clipped, no cell left of the start column or
\* above the start row is modified, and the bits that stay on the screen
\* are drawn where they fall.
C15_WrapOrClip ==
    [][ (IsCycleStep /\ op' \div 4096 = 13 /\ result' = "Ok")
            => /\ \A c \in Changed :
                     /\ \E b \in 0..7 : c % SCREEN_WIDTH = (StartColumn + b) % SCREEN_WIDTH
                     /\ \E r \in 0..(nibble_n(op') - 1) :
                            c \div SCREEN_WIDTH = (StartRow + r) % SCREEN_HEIGHT
               /\ quirks.draw_wrap =>
                     \A r \in 0..(nibble_n(op') - 1), b \in 0..7 :
                        (memory[index + r] \div (2 ^ (7 - b))) % 2 = 1
                            => CellOf(r, b) \in Changed
               /\ ~quirks.draw_wrap =>
                     /\ \A c \in Changed : /\ c % SCREEN_WIDTH >= StartColumn
                                            /\ c \div SCREEN_WIDTH >= StartRow
                     /\ \A r \in 0..(nibble_n(op') - 1), b \in 0..7 :
                           ( /\ StartColumn + b < SCREEN_WIDTH
                             /\ StartRow + r < SCREEN_HEIGHT
                             /\ (memory[index + r] \div (2 ^ (7 - b))) % 2 = 1 )
                               => (StartColumn + b) + SCREEN_WIDTH * (StartRow + r) \in Changed
             ]_vars

\* without draw_wrap the glyph 0 drawn at (61, 31) has lost its fourth
\* column and its lower rows: nothing appeared in column 0 or in row 0
C15_Witness ==
    /\ cycles = 1
    /\ result = "Ok"
    /\ op = \HD015
    /\ ~quirks.draw_wrap
    /\ registers[0] = 61
    /\ registers[1] = 31
    /\ index = 0
    /\ screen_buffer[61 + SCREEN_WIDTH * 31] = 1
    /\ screen_buffer[63 + SCREEN_WIDTH * 31] = 1
    /\ screen_buffer[SCREEN_WIDTH * 31] = 0
    /\ screen_buffer[61] = 0

\* ------------------------------------------------------------------ C16
\* this DXYN has to read a sprite row outside memory
ReadsOutsideMemory ==
    \E r \in 0..(nibble_n(op') - 1) :
        /\ index + r >= MEMORY_SIZE
        /\ quirks.draw_wrap \/ StartRow + r < SCREEN_HEIGHT

\* C16: a DXYN that has to read a sprite row at an address outside memory
\* returns the out-of-bounds error and leaves screen_buffer and VF exactly
\* as they were: no earlier row of the sprite has been drawn.
C16_FailedDrawLeavesScreen ==
    [][ (IsCycleStep /\ op' \div 4096 = 13 /\ ReadsOutsideMemory)
            => /\ result' = "ProgramCounterOutOfBounds"
               /\ screen_buffer' = screen_buffer
               /\ registers'[15] = registers[15] ]_vars

\* ------------------------------------------------------------------ C17
NoKeyPressed == \A k \in 0..(KEY_COUNT - 1) : key_inputs[k] = 0

\* k is the lowest key held down
LowestPressed(k) ==
    /\ key_inputs[k] = 1
    /\ \A j \in 0..(KEY_COUNT - 1) : j < k => key_inputs[j] = 0

IsWaitOpcode(opcode) == opcode \div 4096 = 15 /\ opcode % 256 = 10

\* C17: FX0A run through execute_cycle with no key pressed leaves pc at the
\* address of the FX0A and every other field except op unchanged; with a key
\* pressed it sets Vx to the lowest pressed key and leaves pc two bytes past
\* the opcode.
C17_WaitForKeyCycle ==
    [][ (CycleRuns /\ IsWaitOpcode(op'))
            => /\ result' = "Ok"
               /\ op' = fetch_opcode(State)
               /\ IF NoKeyPressed
                  THEN /\ pc' = pc
                       /\ UNCHANGED << memory, registers, stack, key_inputs,
                                       screen_buffer, index, delay_timer,
                                       sound_timer, should_draw, exited >>
                  ELSE /\ pc' = pc + 2
                       /\ LowestPressed(registers'[(op' \div 256) % 16]) ]_vars

\* the FX0A at 0x200 was run twice: the first cycle found no key and stayed,
\* the second found keys 1 and 5 down and took key 1
C17_Witness ==
    /\ cycles = 2
    /\ result = "Ok"
    /\ op = \HF00A
    /\ pc = PROGRAM_START + 2
    /\ key_inputs[1] = 1
    /\ key_inputs[5] = 1
    /\ registers[0] = 1

\* ------------------------------------------------------------------ C18
\* the program is about to run an FX0A
AtWait == ~pc_out_of_bounds(State) /\ IsWaitOpcode(fetch_opcode(State))

\* the program has just left an FX0A with key k in Vx
JustLeftWith(k) ==
    /\ result = "Ok"
    /\ pc >= 2
    /\ op = memory[pc - 2] * 256 + memory[pc - 1]
    /\ IsWaitOpcode(op)
    /\ registers[(op \div 256) % 16] = k

\* the program has just left an FX0A with the key held down in Vx
JustLeftWithKey == \E k \in 0..(KEY_COUNT - 1) : JustLeftWith(k) /\ LowestPressed(k)

\* C18: while no key is pressed a cycle of a program blocked on FX0A puts pc
\* back on the FX0A, and a tick_timers call between the cycles leaves it
\* there; if the host keeps calling execute_cycle, a program blocked with a
\* key down leaves the FX0A with Vx set to the key held across the cycle,
\* unless every key is let go before the cycle comes.
C18_BlockedUntilKey ==
    /\ [][ (PollCycle /\ AtWait /\ NoKeyPressed) => (pc' = pc /\ AtWait') ]_vars
    /\ [][ (IsTickStep /\ AtWait) => (pc' = pc /\ AtWait') ]_vars
    /\ (AtWait /\ ~NoKeyPressed) ~> (JustLeftWithKey \/ NoKeyPressed)

\* blocked on the FX0A at 0x204 with no key down, the timer ticked from 3 to
\* 2, then key 5 was pressed and the next cycle took it
C18_Witness ==
    /\ JustLeftWith(5)
    /\ pc = PROGRAM_START + 6
    /\ delay_timer = 2
    /\ key_inputs[5] = 1

\* ------------------------------------------------------------------ C19
\* C19: 00EE run with an empty stack returns StackUnderflow, leaves the
\* stack empty and does not change registers, memory, index, screen_buffer
\* or the timers.
C19_ReturnOnEmptyStack ==
    [][ (CycleRuns /\ fetch_opcode(State) = \H00EE /\ stack = << >>)
            => /\ result' = "StackUnderflow"
               /\ stack' = << >>
               /\ UNCHANGED << registers, memory, index, screen_buffer,
                               delay_timer, sound_timer >> ]_vars

\* the 00EE at 0x206 failed after V1, the delay timer and I had been set
C19_Witness ==
    /\ result = "StackUnderflow"
    /\ op = \H00EE
    /\ stack = << >>
    /\ registers[1] = 5
    /\ index = \H300
    /\ delay_timer > 0

\* ------------------------------------------------------------------ C20
\* C20: in every state reachable from reset the stack is as deep as the
\* 2NNN executed minus the 00EE that succeeded; it holds, in order, the
\* address after each 2NNN not yet returned from, so no other opcode and no
\* tick_timers call has changed it; and a 00EE that succeeded has set pc two
\* bytes past the 2NNN it matches.
C20_StackMatchesCalls ==
    /\ Len(stack) = hist.calls - hist.rets
    /\ Len(stack) = Len(hist.sites)
    /\ \A i \in DOMAIN stack : stack[i] = hist.sites[i] + 2
    /\ (result = "Ok" /\ op = \H00EE) => (hist.rets > 0 /\ pc = hist.back + 2)

\* both calls of the nested program have returned: the second 00EE matched
\* the 2204 fetched at 0x200
C20_Witness ==
    /\ hist.calls = 2
    /\ hist.rets = 2
    /\ stack = << >>
    /\ result = "Ok"
    /\ op = \H00EE
    /\ hist.back = PROGRAM_START
    /\ pc = PROGRAM_START + 2

\* a step that is one reset_state call
IsResetStep == hist'.resets = hist.resets + 1

\* ------------------------------------------------------------------ C21
\* C21: exited becomes true only by running opcode 00FD, stays true across
\* every later execute_cycle and tick_timers call, and goes back to false
\* only in a reset_state call.
C21_ExitedSticks ==
    /\ [][ (~exited /\ exited') => (CycleRuns /\ op' = \H00FD) ]_vars
    /\ [][ (exited /\ ~exited') => IsResetStep ]_vars

\* the program has exited, and a later cycle and a later tick left exited up
C21_Witness ==
    /\ exited
    /\ cycles >= 2
    /\ op = \H1200
    /\ run.n > 0

\* ------------------------------------------------------------------ C23
\* the machine as a reset with the file of rom_path leaves it
ResetLayout ==
    LET L == Len(rom_path.bytes)
    IN  IF L > 3584 THEN result = "RomTooLarge"
        ELSE /\ result = "Ok"
             /\ memory = [a \in 0..4095 |->
                             IF a < 80 THEN FONT_BYTES[a + 1]
                             ELSE IF a >= 512 /\ a < 512 + L THEN rom_path.bytes[a - 511]
                             ELSE 0]
             /\ \A r \in DOMAIN registers : registers[r] = 0
             /\ index = 0
             /\ delay_timer = 0
             /\ sound_timer = 0
             /\ \A k \in DOMAIN key_inputs : key_inputs[k] = 0
             /\ \A c \in DOMAIN screen_buffer : screen_buffer[c] = 0
             /\ stack = << >>
             /\ ~exited
             /\ pc = 512

\* C23: after a reset with a ROM of length L <= 3584 memory holds the font
\* in 0..79, the ROM from 0x200 and 0 elsewhere, registers, index, timers,
\* keys and screen are zero, the stack is empty, exited is false and pc is
\* 0x200; a longer ROM is rejected with the ROM-too-large error. This holds
\* for the first reset (create_state) and for every later one.
C23_ResetLayout ==
    /\ rom_path.some => ResetLayout
    /\ [][ (IsResetStep /\ rom_path'.some) => ResetLayout' ]_vars

\* a machine that had run was reset with the file of the program that
\* marks every part of it
C23_Witness ==
    /\ hist.resets = 1
    /\ hist.over
    /\ rom_path = some_rom_path(DirtyRom)
    /\ result = "Ok"
    /\ pc = PROGRAM_START
    /\ memory[PROGRAM_START] = \H61
    /\ memory[\H300] = 0
    /\ stack = << >>

\* ---------------------------------------------------------------- C22
HeadlessOver == headless.phase \in {"returned", "failed"}

\* the arguments pass the checks and the ROM's first instruction is 00FD
StartsWithExit ==
    /\ headless.max_cycles > 0
    /\ headless.cpu_hz > 0
    /\ Len(rom_path.bytes) >= 2
    /\ rom_path.bytes[1] = 0
    /\ rom_path.bytes[2] = \HFD

\* C22: run_emulator_headless always comes to an end, having executed at most
\* max_cycles cycles and none after a cycle set exited; when it returns Ok the
\* loop ended by the exit flag or by the cycle budget and the state is the one
\* the last cycle or tick left; a ROM whose first instruction is 00FD returns
\* exited after exactly one cycle
C22_HeadlessTerminates ==
    /\ <>HeadlessOver
    /\ [](cycles <= headless.max_cycles)
    /\ [][exited => cycles' = cycles]_vars
    /\ [][HeadlessOver' /\ ~HeadlessOver => UNCHANGED machine \/ result' # "Ok"]_vars
    /\ [](headless.phase = "returned" =>
            result = "Ok" /\ (exited \/ cycles = headless.max_cycles))
    /\ []((HeadlessOver /\ StartsWithExit) =>
            (headless.phase = "returned" /\ exited /\ cycles = 1 /\ op = \H00FD))

C22_Witness ==
    /\ headless.phase = "returned"
    /\ StartsWithExit
    /\ headless.max_cycles = MaxHeadlessCycles
    /\ exited
    /\ cycles = 1

\* ------------------------------------------------------------ assembler
\* the statement cursor of pass 2 stands before an ORG that padded the output
OrgPadded(k) ==
    /\ asm.statements[k].kind = "DirectiveOrg"
    /\ k < Len(asm.cursors)
    /\ asm.cursors[k] < asm.cursors[k + 1]

\* C24: origin law: when assemble_text returns Ok, the number of bytes returned
\* is the program counter pass 1 ended with minus the origin, the zero bytes
\* of every ORG counted
C24_OriginLaw ==
    asm.phase = "done" => Len(asm.output) = asm.program_counter - asm.origin

C24_Witness ==
    /\ asm.phase = "done"
    /\ \E k \in DOMAIN asm.statements : OrgPadded(k)
    /\ \E k \in DOMAIN asm.statements :
          /\ asm.statements[k].kind = "DirectiveDb"
          /\ \E i \in DOMAIN asm.statements[k].arguments :
                parse_string_literal(asm.statements[k].arguments[i]).some
    /\ Len(asm.output) = asm.program_counter - asm.origin
    /\ Len(asm.output) > 4

\* the line pass 1 reads in this step is ORG with one integer literal
OrgLiteralStep ==
    /\ asm.phase = "pass1"
    /\ asm.line_no < Len(asm.source)
    /\ asm'.line_no = asm.line_no + 1
    /\ asm.source[asm.line_no + 1].operation = "ORG"
    /\ Len(asm.source[asm.line_no + 1].arguments) = 1
    /\ parse_numeric_literal(asm.source[asm.line_no + 1].arguments[1]).ok

OrgLiteral == parse_numeric_literal(asm.source[asm.line_no + 1].arguments[1]).value

\* C25: ORG N with an integer literal N, negative ones included, fails the
\* assembly when N < origin or N < the program counter; the program counter
\* of pass 1 never moves backwards, and an ORG that is accepted sets it to N
C25_OrgNeverBackwards ==
    /\ [][OrgLiteralStep =>
            /\ (OrgLiteral < asm.origin \/ OrgLiteral < asm.program_counter)
                  => asm'.phase = "failed"
            /\ asm'.phase # "failed" => asm'.program_counter = OrgLiteral]_vars
    /\ [][asm.phase = "pass1" /\ asm'.phase \in {"pass1", "pass2", "failed"}
            => asm'.program_counter >= asm.program_counter]_vars

\* every label name written in the source, bound to the origin
SourceLabels ==
    LET names == UNION { { asm.source[i].labels[j] : j \in DOMAIN asm.source[i].labels } :
                         i \in DOMAIN asm.source }
    IN  [name \in names |-> asm.origin]

\* the statement cannot be encoded even with every label of the source known
\* (ORG is judged by pass 1)
StatementFails(statement) ==
    /\ statement.kind # "DirectiveOrg"
    /\ ~encode_statement(statement, SourceLabels, asm.origin).ok

\* C26: when assemble_text fails, the error it reports is that of the first
\* failing line: no statement on an earlier line has an error of its own
C26_FirstFailingLine ==
    asm.phase = "failed" =>
        \A k \in DOMAIN asm.statements :
            asm.statements[k].line_no < asm.error.line_no
                => ~StatementFails(asm.statements[k])

\* the line on which a label of the source is defined
DefinitionLine(name) ==
    CHOOSE i \in DOMAIN asm.source :
        /\ \E j \in DOMAIN asm.source[i].labels : asm.source[i].labels[j] = name
        /\ \A h \in 1..(i - 1) :
              \A j \in DOMAIN asm.source[h].labels : asm.source[h].labels[j] # name

\* the number of bytes pass 2 had emitted when it came to the statement that
\* follows the label (all of the output when no statement follows)
EmittedBefore(name) ==
    LET after == { k \in DOMAIN asm.statements :
                       asm.statements[k].line_no >= DefinitionLine(name) }
    IN  IF after = {} THEN Len(asm.output)
        ELSE asm.emitted[CHOOSE k \in after : \A h \in after : k <= h]

\* the operand of statement k that is an address and is written as a label:
\* JP label, CALL label, LD I, label
LabelOperands(k) ==
    LET statement == asm.statements[k]
        arguments == statement.arguments
    IN  IF statement.operation \in {"JP", "CALL"} /\ Len(arguments) = 1
        THEN { arguments[1] } \cap DOMAIN asm.labels
        ELSE IF statement.operation = "LD" /\ Len(arguments) = 2
                /\ arguments[1] \in { << "I" >>, << "i" >> }
        THEN { arguments[2] } \cap DOMAIN asm.labels
        ELSE {}

\* the two bytes pass 2 emitted for statement k, as a word
EmittedWord(k) ==
    asm.output[asm.emitted[k] + 1] * 256 + asm.output[asm.emitted[k] + 2]

\* C27: in an assembly that succeeds, the program counter of pass 1 and the
\* address cursor of pass 2 agree at every statement; each label's value is
\* the origin plus the bytes pass 2 emitted before the statement that follows
\* the label; an address operand written as a label, defined before or after
\* the statement, is encoded as that address
C27_PassesAgree ==
    asm.phase = "done" =>
        /\ Len(asm.cursors) = Len(asm.statements)
        /\ \A k \in DOMAIN asm.statements :
              /\ asm.cursors[k] = asm.pcs[k]
              /\ asm.cursors[k] = asm.origin + asm.emitted[k]
        /\ asm.current_address = asm.program_counter
        /\ \A name \in DOMAIN asm.labels :
              asm.labels[name] = asm.origin + EmittedBefore(name)
        /\ \A k \in DOMAIN asm.statements :
              \A name \in LabelOperands(k) :
                  EmittedWord(k) % 4096 = asm.origin + EmittedBefore(name)

C27_Witness ==
    /\ asm.phase = "done"
    /\ \E k \in DOMAIN asm.statements :
          \E name \in LabelOperands(k) :
              /\ DefinitionLine(name) > asm.statements[k].line_no
              /\ EmittedBefore(name) > asm.emitted[k]
              /\ EmittedWord(k) % 4096 = asm.labels[name]
              /\ asm.labels[name] = asm.origin + EmittedBefore(name)

\* the encoding table: each mnemonic form and its opcode with the operand
\* fields zero
EncodingTable ==
    LET row(mnemonic, operands, opcode) ==
            [mnemonic |-> mnemonic, operands |-> operands, opcode |-> opcode]
    IN  { row("CLS", << >>, \H00E0), row("RET", << >>, \H00EE), row("EXIT", << >>, \H00FD),
          row("JP", << "addr" >>, \H1000), row("JP", << "x", "byte" >>, \HB000),
          row("CALL", << "addr" >>, \H2000),
          row("SE", << "x", "byte" >>, \H3000), row("SE", << "x", "y" >>, \H5000),
          row("SNE", << "x", "byte" >>, \H4000), row("SNE", << "x", "y" >>, \H9000),
          row("LD", << "x", "byte" >>, \H6000), row("LD", << "x", "y" >>, \H8000),
          row("LD", << "x", "DT" >>, \HF007), row("LD", << "x", "K" >>, \HF00A),
          row("LD", << "x", "[I]" >>, \HF065), row("LD", << "I", "addr" >>, \HA000),
          row("LD", << "DT", "x" >>, \HF015), row("LD", << "ST", "x" >>, \HF018),
          row("LD", << "F", "x" >>, \HF029), row("LD", << "B", "x" >>, \HF033),
          row("LD", << "[I]", "x" >>, \HF055),
          row("ADD", << "x", "byte" >>, \H7000), row("ADD", << "x", "y" >>, \H8004),
          row("ADD", << "I", "x" >>, \HF01E),
          row("OR", << "x", "y" >>, \H8001), row("AND", << "x", "y" >>, \H8002),
          row("XOR", << "x", "y" >>, \H8003), row("SUB", << "x", "y" >>, \H8005),
          row("SUBN", << "x", "y" >>, \H8007),
          row("SHR", << "x" >>, \H8006), row("SHR", << "x", "y" >>, \H8006),
          row("SHL", << "x" >>, \H800E), row("SHL", << "x", "y" >>, \H800E),
          row("RND", << "x", "byte" >>, \HC000), row("DRW", << "x", "y", "nibble" >>, \HD000),
          row("SKP", << "x" >>, \HE09E), row("SKNP", << "x" >>, \HE0A1) }

\* the rows of the table for the form given to the encoder
TableRows ==
    { row \in EncodingTable :
        row.mnemonic = asm.form.mnemonic /\ row.operands = asm.form.operands }

\* the numbers of arguments the table has for the mnemonic
ArgumentCounts ==
    { Len(row.operands) : row \in { r \in EncodingTable : r.mnemonic = asm.mnemonic } }

\* the largest literal the form takes
LiteralLimit ==
    IF form_uses(asm.form, {"addr"}) THEN \H0FFF
    ELSE IF form_uses(asm.form, {"byte"}) THEN \HFF
    ELSE \H0F

\* the opcode of the table with x in bits 11..8, y in bits 7..4 (x again for
\* a one-argument shift) and the literal in the low bits
TableOpcode ==
    LET row == CHOOSE r \in TableRows : TRUE
        x_bits == IF form_uses(asm.form, {"x"}) THEN asm.x_reg ELSE 0
        y_bits == IF form_uses(asm.form, {"y"}) THEN asm.y_reg
                  ELSE IF asm.mnemonic \in {"SHR", "SHL"} THEN asm.x_reg
                  ELSE 0
        literal == IF form_uses(asm.form, {"addr", "byte", "nibble"}) THEN asm.value ELSE 0
    IN  row.opcode + 256 * x_bits + 16 * y_bits + literal

\* the form is in the table, its registers are V0..VF and its literal is in
\* the range of its kind
WellFormed ==
    /\ TableRows # {}
    /\ form_uses(asm.form, {"x"}) => asm.x_reg <= 15
    /\ form_uses(asm.form, {"y"}) => asm.y_reg <= 15
    /\ form_uses(asm.form, {"addr", "byte", "nibble"})
          => asm.value >= 0 /\ asm.value <= LiteralLimit

\* C28: for every form of the encoding table, every register 0..15 and every
\* operand in range encode_instruction returns the table's opcode with x in
\* bits 11..8, y in bits 7..4 and the literal in the low bits (JP Vx, kk gives
\* Bxkk); an operand out of range or negative, an invalid register, an
\* unknown mnemonic and a wrong number of arguments are errors
C28_EncodingTable ==
    asm.phase = "encoded" =>
        IF asm.arity = 0
        THEN IF WellFormed
             THEN asm.opcode.ok /\ asm.opcode.value = TableOpcode
             ELSE ~asm.opcode.ok
        ELSE Len(asm.arguments) \notin ArgumentCounts => ~asm.opcode.ok

C28_Witness ==
    /\ asm.phase = "encoded"
    /\ asm.mnemonic = "JP"
    /\ asm.arguments = << << "V", "F" >>, << "0", "x", "F", "F" >> >>
    /\ asm.opcode.ok
    /\ asm.opcode.value = \HBFFF

\* pass 2 takes a step on the statement under its cursor
PassTwoStep ==
    /\ asm.phase = "pass2"
    /\ asm.cursor < Len(asm.statements)
    /\ asm' # asm

PassTwoStatement == asm.statements[asm.cursor + 1]

\* the step encoded the statement: the bytes it appended to the output
Appended ==
    /\ asm'.phase = "pass2"
    /\ asm'.cursor = asm.cursor + 1
    /\ Len(asm'.output) >= Len(asm.output)
    /\ SubSeq(asm'.output, 1, Len(asm.output)) = asm.output

NewBytes == SubSeq(asm'.output, Len(asm.output) + 1, Len(asm'.output))

\* a DB argument in quotes
IsQuoted(argument) ==
    /\ Len(argument) >= 2
    /\ argument[1] \in {"'", "\""}
    /\ argument[Len(argument)] = argument[1]

\* the bytes a DB argument stands for: its characters, or one number
ByteCount(argument) == IF IsQuoted(argument) THEN Len(argument) - 2 ELSE 1

\* the bytes of the arguments before argument i
RECURSIVE BytesBefore(_, _)
BytesBefore(arguments, i) ==
    IF i <= 1 THEN 0
    ELSE BytesBefore(arguments, i - 1) + ByteCount(arguments[i - 1])

\* a numeric argument whose value is outside 0..maximum
OutOfRange(arguments, maximum) ==
    \E i \in DOMAIN arguments :
        /\ ~IsQuoted(arguments[i])
        /\ parse_value(arguments[i], asm.labels).ok
        /\ \/ parse_value(arguments[i], asm.labels).value < 0
           \/ parse_value(arguments[i], asm.labels).value > maximum

\* C29: in pass 2 DB appends one byte per numeric argument and one per
\* character of a quoted argument, in argument order, and fails for a number
\* outside 0..0xFF; DW appends two bytes per argument, high byte first, and
\* fails for a number outside 0..0xFFFF; ORG appends zero bytes only, as many
\* as it takes to reach its target
C29_DataDirectives ==
    [][PassTwoStep =>
        LET arguments == PassTwoStatement.arguments
            value(i) == parse_value(arguments[i], asm.labels).value
        IN  /\ PassTwoStatement.kind = "DirectiveDb" =>
                /\ OutOfRange(arguments, \HFF) => asm'.phase = "failed"
                /\ asm'.phase # "failed" =>
                      /\ Appended
                      /\ Len(NewBytes) = BytesBefore(arguments, Len(arguments) + 1)
                      /\ \A i \in DOMAIN arguments :
                            IF IsQuoted(arguments[i])
                            THEN \A c \in 1..(Len(arguments[i]) - 2) :
                                    NewBytes[BytesBefore(arguments, i) + c]
                                        = char_code(arguments[i][c + 1])
                            ELSE NewBytes[BytesBefore(arguments, i) + 1] = value(i)
            /\ PassTwoStatement.kind = "DirectiveDw" =>
                /\ OutOfRange(arguments, \HFFFF) => asm'.phase = "failed"
                /\ asm'.phase # "failed" =>
                      /\ Appended
                      /\ Len(NewBytes) = 2 * Len(arguments)
                      /\ \A i \in DOMAIN arguments :
                            /\ NewBytes[2 * i - 1] = value(i) \div 256
                            /\ NewBytes[2 * i] = value(i) % 256
            /\ (PassTwoStatement.kind = "DirectiveOrg" /\ asm'.phase = "pass2") =>
                /\ Appended
                /\ \A i \in DOMAIN NewBytes : NewBytes[i] = 0
                /\ asm.origin + Len(asm'.output) = value(1)
                /\ asm'.current_address = value(1)]_vars

C29_Witness ==
    /\ asm.phase = "done"
    /\ Len(asm.statements) = 4
    /\ asm.statements[2].kind = "DirectiveDb"
    /\ asm.statements[4].kind = "DirectiveDw"
    /\ asm.output = << \H12, 34, \H41, \H42, \H43, \HAB, \HCD >>

\* assemble_text is over: it returned Ok or Err, or it panicked
AsmOver == asm.phase \in {"done", "failed", "panicked"}

\* label j of line i is written before it on the same line or on an earlier one
DefinedBefore(i, j) ==
    \/ \E h \in 1..(j - 1) : asm.source[i].labels[h] = asm.source[i].labels[j]
    \/ \E g \in 1..(i - 1) :
          \E h \in DOMAIN asm.source[g].labels :
              asm.source[g].labels[h] = asm.source[i].labels[j]

\* the lines that define a label a second time
SecondDefinitions ==
    { i \in DOMAIN asm.source : \E j \in DOMAIN asm.source[i].labels : DefinedBefore(i, j) }

SecondDefinitionLine == CHOOSE i \in SecondDefinitions : \A h \in SecondDefinitions : i <= h

DuplicateReported ==
    /\ asm.phase = "failed"
    /\ asm.error = error_at("duplicate label", SecondDefinitionLine)
    /\ asm.output = << >>

\* C30: a source that defines a label twice fails with the duplicate-label
\* error at the line of the second definition and produces no bytes, when
\* pass 1 gets as far as that line and every label written on it is valid
C30_DuplicateReported ==
    (/\ AsmOver
     /\ SecondDefinitions # {}
     /\ asm.line_no >= SecondDefinitionLine
     /\ \A j \in DOMAIN asm.source[SecondDefinitionLine].labels :
           validate_label(asm.source[SecondDefinitionLine].labels[j]))
        => DuplicateReported

C30_Witness ==
    /\ SecondDefinitions # {}
    /\ SecondDefinitionLine = 3
    /\ DuplicateReported
    /\ Len(asm.statements) = 1
    /\ StatementFails(asm.statements[1])

\* C30 as stated: every source that defines a label twice fails with the
\* duplicate-label error at the line of the second definition
C30_DuplicateAlwaysReported ==
    (AsmOver /\ SecondDefinitions # {}) => DuplicateReported

\* ------------------------------------------------------------------ C31
\* the opcode the cycle fetches
Fetched == fetch_opcode(State)

FetchesCycle == IsCycleStep /\ ~pc_out_of_bounds(State)

\* the step changes no memory cell outside cells
MemoryKeptOutside(cells) ==
    memory' = [a \in 0..(MEMORY_SIZE - 1) |->
                  IF a \in cells THEN memory'[a] ELSE memory[a]]

IsBcdOpcode(opcode) == opcode \div 4096 = 15 /\ opcode % 256 = \H33

\* C31: for every Vx in 0..=255 and I <= 0xFFD, FX33 stores three decimal
\* digits, each in 0..=9, with 100 * memory[I] + 10 * memory[I + 1]
\* + memory[I + 2] = Vx, and changes no other memory cell, no register and
\* not I.
C31_BcdDigits ==
    [][ (FetchesCycle /\ IsBcdOpcode(Fetched) /\ index <= \HFFD)
        => /\ result' = "Ok"
           /\ \A k \in 0..2 : memory'[index + k] \in 0..9
           /\ 100 * memory'[index] + 10 * memory'[index + 1] + memory'[index + 2]
                = registers[x_register_index(Fetched)]
           /\ MemoryKeptOutside(index..(index + 2))
           /\ registers' = registers
           /\ index' = index ]_vars

\* FX33 of Vx = 255 at I = 0xFFD has stored 2, 5, 5 in the last three cells
C31_Witness ==
    /\ cycles = 1
    /\ result = "Ok"
    /\ IsBcdOpcode(op)
    /\ registers[x_register_index(op)] = 255
    /\ index = \HFFD
    /\ << memory[\HFFD], memory[\HFFE], memory[\HFFF] >> = << 2, 5, 5 >>


\* ------------------------------------------------------------------ C32
IsSkipOpcode(opcode) ==
    \/ opcode \div 4096 \in {3, 4}
    \/ opcode \div 4096 \in {5, 9} /\ opcode % 16 = 0
    \/ opcode \div 4096 = 14 /\ opcode % 256 \in {\H9E, \HA1}

\* the condition each skip tests, read off the registers and keys before it
SkipConditionHolds(opcode) ==
    LET vx == registers[(opcode \div 256) % 16]
        vy == registers[(opcode \div 16) % 16]
        pressed == key_inputs[vx % 16] = 1
    IN  CASE opcode \div 4096 = 3 -> vx = opcode % 256
          [] opcode \div 4096 = 4 -> vx # opcode % 256
          [] opcode \div 4096 = 5 -> vx = vy
          [] opcode \div 4096 = 9 -> vx # vy
          [] opcode % 256 = \H9E -> pressed
          [] OTHER -> ~pressed

\* C32: each skip opcode (3XKK, 4XKK, 5XY0, 9XY0, EX9E, EXA1) run through
\* execute_cycle advances pc by exactly 4 when its condition holds and by
\* exactly 2 when it does not, EX9E / EXA1 testing key number Vx & 0x0F, and
\* changes nothing else except op.
C32_SkipAdvance ==
    [][ (FetchesCycle /\ IsSkipOpcode(Fetched))
        => /\ result' = "Ok"
           /\ pc' = pc + (IF SkipConditionHolds(Fetched) THEN 4 ELSE 2)
           /\ op' = Fetched
           /\ UNCHANGED << memory, registers, stack, key_inputs, screen_buffer,
                           index, delay_timer, sound_timer, should_draw, exited >>
      ]_vars

\* EX9E with Vx = 0x1A and key 0xA held down has skipped: the key number is
\* the low nibble of Vx
C32_Witness ==
    /\ cycles = 1
    /\ op = \HE09E
    /\ registers[0] = \H1A
    /\ key_inputs[10] = 1
    /\ pc = PROGRAM_START + 4


\* ------------------------------------------------------------------ C33
\* C33: execute_cycle called with pc + 1 >= 4096 returns the
\* program-counter-out-of-bounds error and leaves the whole state, pc and op
\* included, exactly as it was.
C33_FetchOutOfBounds ==
    [][ (IsCycleStep /\ pc + 1 >= MEMORY_SIZE)
        => /\ result' = "ProgramCounterOutOfBounds"
           /\ UNCHANGED machine ]_vars

\* the cycle asked for at pc = 0xFFF, the lowest such address, was refused
C33_Witness ==
    /\ cycles = 1
    /\ result = "ProgramCounterOutOfBounds"
    /\ pc = \HFFF
    /\ op = 0

\* ------------------------------------------------------------------ C34
\* the opcodes outside the instruction set
IsRejectedOpcode(opcode) ==
    LET family == opcode \div 4096
        n == opcode % 16
        kk == opcode % 256
    IN  \/ family \in {5, 9} /\ n # 0
        \/ family = 8 /\ n \in {8, 9, 10, 11, 12, 13, 15}
        \/ family = 14 /\ kk \notin {\H9E, \HA1}
        \/ family = 15 /\ kk \notin {\H07, \H0A, \H15, \H18, \H1E, \H29, \H33, \H55, \H65}

\* C34: every opcode outside the instruction set (5XYn and 9XYn with n != 0,
\* 8XYn with n in {8,9,A,B,C,D,F}, EXkk with kk not in {9E, A1}, FXkk with kk
\* not in {07,0A,15,18,1E,29,33,55,65}) returns the invalid-opcode error
\* carrying that opcode (the `opcode` argument, which op holds from the first
\* line of execute_opcode on), and leaves registers, memory, index, stack,
\* screen_buffer, timers and exited unchanged.
C34_RejectedOpcodes ==
    [][ (FetchesCycle /\ IsRejectedOpcode(Fetched))
        => /\ result' = "InvalidOpcode"
           /\ op' = Fetched
           /\ UNCHANGED << registers, memory, index, stack, screen_buffer,
                           delay_timer, sound_timer, exited >> ]_vars

\* 5XY1 was refused, with registers and I as the harness had set them
C34_Witness ==
    /\ cycles = 1
    /\ result = "InvalidOpcode"
    /\ op = \H50F1
    /\ registers[0] = \H1A
    /\ index = \H300

\* ------------------------------------------------------------------ C35
\* C35: every 0xxx opcode other than 00E0, 00EE and 00FD succeeds and changes
\* nothing except op and the pc advance of 2 made by the fetch.
C35_Family0Ignored ==
    [][ (FetchesCycle /\ Fetched \div 4096 = 0 /\ Fetched \notin {\H00E0, \H00EE, \H00FD})
        => /\ result' = "Ok"
           /\ pc' = pc + 2
           /\ op' = Fetched
           /\ UNCHANGED << memory, registers, stack, key_inputs, screen_buffer,
                           index, delay_timer, sound_timer, should_draw, exited >>
      ]_vars

\* 00E1, one off the clear-screen opcode, went through as a no-op
C35_Witness ==
    /\ cycles = 1
    /\ result = "Ok"
    /\ op = \H00E1
    /\ pc = PROGRAM_START + 2
    /\ should_draw

\* ------------------------------------------------------------------ C36
\* the opcodes that write VF as a flag: 8XY4, 8XY5, 8XY6, 8XY7, 8XYE and DXYN
IsFlagOpcode(opcode) ==
    \/ opcode \div 4096 = 8 /\ opcode % 16 \in {4, 5, 6, 7, 14}
    \/ opcode \div 4096 = 13

\* 7XKK, 8XY1, 8XY2, 8XY3 and FX1E
IsPlainOpcode(opcode) ==
    \/ opcode \div 4096 = 7
    \/ opcode \div 4096 = 8 /\ opcode % 16 \in {1, 2, 3}
    \/ opcode \div 4096 = 15 /\ opcode % 256 = \H1E

\* C36: VF is written as a flag only by 8XY4, 8XY5, 8XY6, 8XY7, 8XYE and
\* DXYN: 7XKK, 8XY1, 8XY2, 8XY3 and FX1E leave VF unchanged whenever their
\* destination register x is not 0xF, for every operand value including those
\* that overflow; so does every other opcode outside the six whose x is not
\* 0xF.
C36_FlagOnlyFromFlagOpcodes ==
    [][ (FetchesCycle /\ ~IsFlagOpcode(Fetched) /\ (Fetched \div 256) % 16 # 15)
        => /\ registers'[15] = registers[15]
           /\ IsPlainOpcode(Fetched) => result' = "Ok" ]_vars

\* 7XKK wrapped V0 from 0xFF to 0 and VF, 0 before, is still 0
C36_Witness ==
    /\ cycles = 1
    /\ result = "Ok"
    /\ op = \H7001
    /\ registers[0] = 0
    /\ registers[15] = 0

\* ------------------------------------------------------------------ C37
\* k = max(1, cpu_hz / 60)
TickEvery == IF headless.cpu_hz \div 60 >= 1 THEN headless.cpu_hz \div 60 ELSE 1

\* the cycles of the run that execute_cycle completed: a cycle that returned
\* an error ended the run where it stood
ExecutedCycles == IF result = "Ok" THEN cycles ELSE Max0(cycles - 1)

HeadlessRunning == headless.phase \in {"loop", "tick", "returned", "failed"}

\* the tick that follows the cycle just executed is still to be made
TickPending == headless.phase = "tick"

\* C37: in run_emulator_headless, with k = max(1, cpu_hz / 60), tick_timers is
\* called exactly once after each executed cycle whose 1-based number is a
\* multiple of k and at no other point: after n executed cycles floor(n / k)
\* ticks have happened (the last of them pending right after the cycle, and
\* made before the next one), a tick is one tick_timers call on the state the
\* cycle left, and no cycle step contains a tick.
C37_TickEveryKCycles ==
    /\ []((HeadlessRunning /\ ~TickPending)
            => headless.ticks = ExecutedCycles \div TickEvery)
    /\ [](TickPending
            => /\ result = "Ok"
               /\ cycles > 0
               /\ cycles % TickEvery = 0
               /\ headless.ticks = (cycles \div TickEvery) - 1)
    /\ [](((headless.phase = "loop" /\ result = "Ok" /\ cycles > 0
              /\ cycles % TickEvery = 0)
            => headless.ticks = cycles \div TickEvery))
    /\ [][headless'.ticks # headless.ticks
            => /\ TickPending
               /\ headless'.ticks = headless.ticks + 1
               /\ cycles' = cycles
               /\ delay_timer' = Max0(delay_timer - 1)
               /\ sound_timer' = Max0(sound_timer - 1)
               /\ UNCHANGED << memory, registers, stack, key_inputs, screen_buffer,
                               pc, index, should_draw, exited, op >>]_vars
    /\ [][cycles' # cycles => headless'.ticks = headless.ticks /\ ~TickPending]_vars
    /\ (TickPending ~> ~TickPending)

\* four cycles at 120 Hz: two ticks, which took the delay timer the ROM had
\* set to 3 down to 1
C37_Witness ==
    /\ headless.phase = "returned"
    /\ headless.cpu_hz = 120
    /\ cycles = 4
    /\ headless.ticks = 2
    /\ delay_timer = 1

\* ------------------------------------------------------------------ C38
\* encode_instruction returned an opcode
Encoded == asm.phase \in {"encoded", "executed"} /\ asm.opcode.ok

\* C38: every opcode that encode_instruction can return is accepted by
\* execute_opcode: it is none of the opcodes the decoder rejects, and
\* executing it never yields the invalid-opcode error, for any argument
\* values and either quirks profile.
C38_EncodedOpcodesAccepted ==
    /\ Encoded => ~IsRejectedOpcode(asm.opcode.value)
    /\ asm.phase = "executed" => (op = asm.opcode.value /\ result # "InvalidOpcode")

\* SHL VF, V9 was encoded as 8F9E and executed under the modern profile
C38_Witness ==
    /\ asm.phase = "executed"
    /\ asm.mnemonic = "SHL"
    /\ op = \H8F9E
    /\ quirks = MODERN_QUIRKS
    /\ result = "Ok"

\* ------------------------------------------------------------------ C39
\* C39 as stated: in the interactive host loop, as long as the loop keeps
\* running cycles, every DXYN executed by the ROM is eventually followed by a
\* publication of the framebuffer to the displayed front buffer that includes
\* that draw, also for a ROM that executes 00E0 once, draws, and then never
\* executes 00E0 or blocks on FX0A again
C39_EveryDrawPublished == host.unpublished ~> ~host.unpublished

=============================================================================
